---- MODULE Spec2Model ----
\* Envelope / recipient signing workflow of the e-signature backend:
\* domain models (app/domain/models/envelope.py), the repository
\* (app/infrastructure/repositories/envelope_repository.py) and the workflow
\* service (app/application/services/envelope_service.py).
EXTENDS Integers, Sequences, FiniteSets, TLC

\* ---------------------------------------------------------------- bounds

MaxRecipients == 2
MaxTokens == 2
MaxOrder == 2

\* ------------------------------------------------------ program constants

MIN_SUBJECT_LENGTH == 1
MAX_SUBJECT_LENGTH == 200
MAX_MESSAGE_LENGTH == 5000
MIN_EXPIRATION_DAYS == 1
MAX_EXPIRATION_DAYS == 365
DEFAULT_EXPIRATION_DAYS == 30
MAX_DOCUMENTS == 50
MAX_RECIPIENTS == 100
MIN_SIGNING_ORDER == 1
MAX_NAME_LENGTH == 200

\* ------------------------------------------------------------- universes

\* One envelope: every query of the service filters on one envelope id.
EnvIds == {1}
\* Row ids; a specification caps how many of them it creates.
RcpIds == 1..(MaxRecipients + 1)
Orders == 1..MaxOrder
Users == {"u1", "u2"}
DocIds == {"d1"}
\* Token strings (secrets.token_urlsafe, a JWT with its own iat): the id of
\* the row that stores the token; a string is never issued twice.
TokenIds == 1..MaxTokens

EnvelopeStatus == {"draft", "sent", "delivered", "signed", "completed",
                   "declined", "voided", "expired"}
SigningOrder == {"parallel", "sequential"}
RecipientRole == {"signer", "cc", "approver"}
RecipientStatus == {"pending", "sent", "viewed", "signed", "declined"}

\* Text is a sequence of characters; " " is whitespace, "x" is not.
Reasons == {<<>>, <<" ">>, <<"x">>}
Subject1 == <<"x">>
Name1 == <<"n">>
Email1 == <<"a", "@", "b", ".", "c">>
Code1 == "000000"

VARIABLES envelopes, recipients, documents, now, ret, procs, user_rows,
          reset_tokens, refresh_tokens

vars == <<envelopes, recipients, documents, now, ret, procs, user_rows,
          reset_tokens, refresh_tokens>>

\* A row that is not in its table.
NoResetToken == [user_id |-> "none", used |-> FALSE, deleted |-> FALSE]

NoRefreshToken == [user_id |-> "none", revoked |-> FALSE]

NoEnvelope ==
    [sender_id |-> "none", subject |-> <<>>, message |-> <<>>, status |-> "none",
     signing_order |-> "parallel", expiration_days |-> 0, expires_at |-> 0,
     void_reason |-> <<>>, sent_at |-> 0, completed_at |-> 0, voided_at |-> 0,
     expired_at |-> 0, document_ids |-> <<>>]

NoRecipient ==
    [envelope_id |-> 0, name |-> <<>>, email |-> <<>>, role |-> "none",
     signing_order |-> 0, status |-> "none", access_code |-> "none",
     access_code_hash |-> <<>>, decline_reason |-> <<>>, viewed_at |-> 0]

NoDocument ==
    [user_id |-> "none", status |-> "none", in_use_by_envelopes |-> 0,
     deleted_at |-> 0]

Exists(row) == row.status # "none"

\* ------------------------------------------------- Envelope domain model

\* Faulty variant: `not s` alone, the strip() forgotten.
IsBlank_NoStrip(s) == Len(s) = 0

\* not s or not s.strip()
IsBlank(s) == \A i \in 1..Len(s) : s[i] = " "

ValidateSubject(subject) ==
    /\ ~IsBlank(subject)
    /\ Len(subject) >= MIN_SUBJECT_LENGTH
    /\ Len(subject) <= MAX_SUBJECT_LENGTH

ValidateMessage(message) == Len(message) <= MAX_MESSAGE_LENGTH

ValidateExpirationDays(days) ==
    /\ days >= MIN_EXPIRATION_DAYS
    /\ days <= MAX_EXPIRATION_DAYS

CanSend(env) == env.status = "draft"

\* Faulty variant: the draft test of can_void dropped.
CanVoid_DraftToo(env) == env.status \notin {"completed", "voided", "expired"}

CanVoid(env) ==
    /\ env.status \notin {"completed", "voided", "expired"}
    /\ env.status # "draft"

CanUpdate(env) == env.status = "draft"

\* Faulty variant: the default expiration_days used, not the envelope's.
EnvSend_DefaultDays(env, t) ==
    [env EXCEPT !.status = "sent",
                !.sent_at = t,
                !.expires_at = IF env.expires_at = 0
                               THEN t + DEFAULT_EXPIRATION_DAYS
                               ELSE env.expires_at]

EnvSend(env, t) ==
    [env EXCEPT !.status = "sent",
                !.sent_at = t,
                !.expires_at = IF env.expires_at = 0
                               THEN t + env.expiration_days
                               ELSE env.expires_at]

EnvVoid(env, reason, t) ==
    [env EXCEPT !.status = "voided", !.void_reason = reason, !.voided_at = t]

EnvComplete(env, t) ==
    [env EXCEPT !.status = "completed", !.completed_at = t]

EnvDecline(env) == [env EXCEPT !.status = "declined"]

\* ------------------------------------------------ Recipient domain model

ValidateSigningOrder(order) == order >= MIN_SIGNING_ORDER

\* Faulty variant: the role test of can_sign dropped.
CanSign_AnyRole(rcp) == rcp.status # "signed" /\ rcp.status # "declined"

CanSign(rcp) ==
    /\ rcp.role = "signer"
    /\ rcp.status # "signed"
    /\ rcp.status # "declined"

MarkSent(rcp) == [rcp EXCEPT !.status = "sent"]

\* Faulty variant: viewed_at written on every call.
MarkViewed_EveryCall(rcp, t) ==
    [rcp EXCEPT !.status = IF rcp.status \in {"pending", "sent"}
                           THEN "viewed" ELSE rcp.status,
                !.viewed_at = t]

MarkViewed(rcp, t) ==
    [rcp EXCEPT !.status = IF rcp.status \in {"pending", "sent"}
                           THEN "viewed" ELSE rcp.status,
                !.viewed_at = IF rcp.viewed_at = 0 THEN t ELSE rcp.viewed_at]

MarkSigned(rcp) == [rcp EXCEPT !.status = "signed"]

MarkDeclined(rcp, reason) ==
    [rcp EXCEPT !.status = "declined", !.decline_reason = reason]

\* hashlib.sha256(code.encode()).hexdigest(): injective on the codes in use.
HashAccessCode(code) == <<"sha256", code>>

ValidateName(name) == ~IsBlank(name) /\ Len(name) <= MAX_NAME_LENGTH

\* '@' in email and '.' in email.split('@')[-1]
ValidateEmail(email) ==
    /\ ~IsBlank(email)
    /\ \E i \in 1..Len(email) :
          /\ email[i] = "@"
          /\ \A j \in (i + 1)..Len(email) : email[j] # "@"
          /\ \E j \in (i + 1)..Len(email) : email[j] = "."

\* ------------------------------------------------------------ repository

\* Faulty variant: the envelope filter of the query dropped.
RecipientsByEnvelope_AnyEnvelope(rs, e) == {r \in RcpIds : Exists(rs[r])}

\* get_recipients_by_envelope: the ids of the envelope's recipient rows.
RecipientsByEnvelope(rs, e) ==
    {r \in RcpIds : Exists(rs[r]) /\ rs[r].envelope_id = e}

\* Faulty variant: the role filter of the query dropped.
CountPendingRecipients_AnyRole(rs, e) ==
    Cardinality({r \in RcpIds :
        /\ Exists(rs[r])
        /\ rs[r].envelope_id = e
        /\ rs[r].status \in {"pending", "sent", "viewed"}})

\* Faulty variant: a viewed signer no longer counted as pending.
CountPendingRecipients_NotViewed(rs, e) ==
    Cardinality({r \in RcpIds :
        /\ Exists(rs[r])
        /\ rs[r].envelope_id = e
        /\ rs[r].role = "signer"
        /\ rs[r].status \in {"pending", "sent"}})

CountPendingRecipients(rs, e) ==
    Cardinality({r \in RcpIds :
        /\ Exists(rs[r])
        /\ rs[r].envelope_id = e
        /\ rs[r].role = "signer"
        /\ rs[r].status \in {"pending", "sent", "viewed"}})

\* update_recipient: the columns it assigns, taken from the caller's copy.
UpdateRecipientRow(row, rcp) ==
    [row EXCEPT !.name = rcp.name, !.email = rcp.email, !.role = rcp.role,
                !.signing_order = rcp.signing_order, !.status = rcp.status,
                !.decline_reason = rcp.decline_reason,
                !.viewed_at = rcp.viewed_at]

\* update_envelope: the columns it assigns, taken from the caller's copy.
UpdateEnvelopeRow(row, env) ==
    [row EXCEPT !.subject = env.subject, !.message = env.message,
                !.status = env.status, !.signing_order = env.signing_order,
                !.expiration_days = env.expiration_days,
                !.expires_at = env.expires_at, !.void_reason = env.void_reason,
                !.sent_at = env.sent_at, !.completed_at = env.completed_at,
                !.voided_at = env.voided_at, !.expired_at = env.expired_at]

\* ------------------------------------------------------ workflow service

\* What the last call returned beside the row it returns: {b} after
\* mark_recipient_signed returned envelope_completed = b, {} after any other.
Returned(b) == {b}
NothingMore == {}

\* uuid4() for a new recipient row: an id no row uses yet.
FreshRecipientIds(rs) == {r \in RcpIds : ~Exists(rs[r])}

NewRecipientId(rs) == CHOOSE r \in FreshRecipientIds(rs) :
                          \A q \in FreshRecipientIds(rs) : r <= q

\* ---- create_envelope

IsDuplicateFree(seq) ==
    \A i, j \in 1..Len(seq) : i # j => seq[i] # seq[j]

\* The first document of the list that fails a check decides the error.
RECURSIVE DocumentsResult(_, _, _, _)
DocumentsResult(docs, document_ids, sender_id, i) ==
    IF i > Len(document_ids) THEN "ok"
    ELSE LET doc == docs[document_ids[i]] IN
         IF ~Exists(doc) \/ doc.deleted_at # 0 THEN "EnvelopeValidationError"
         ELSE IF doc.user_id # sender_id THEN "EnvelopePermissionError"
         ELSE IF doc.status # "ready" THEN "EnvelopeValidationError"
         ELSE DocumentsResult(docs, document_ids, sender_id, i + 1)

\* ---- add_recipient

\* Faulty variant: the draft test of add_recipient dropped.
AddRecipientResult_NoDraftTest(envs, rs, e, sender_id, name, email, signing_order) ==
    IF ~Exists(envs[e]) THEN "EnvelopeNotFoundError"
    ELSE IF envs[e].sender_id # sender_id THEN "EnvelopePermissionError"
    ELSE IF ~ValidateName(name) THEN "EnvelopeValidationError"
    ELSE IF ~ValidateEmail(email) THEN "EnvelopeValidationError"
    ELSE IF ~ValidateSigningOrder(signing_order) THEN "EnvelopeValidationError"
    ELSE IF Cardinality(RecipientsByEnvelope(rs, e)) >= MAX_RECIPIENTS
         THEN "EnvelopeValidationError"
    ELSE "ok"

AddRecipientResult(envs, rs, e, sender_id, name, email, signing_order) ==
    IF ~Exists(envs[e]) THEN "EnvelopeNotFoundError"
    ELSE IF envs[e].sender_id # sender_id THEN "EnvelopePermissionError"
    ELSE IF envs[e].status # "draft" THEN "EnvelopeValidationError"
    ELSE IF ~ValidateName(name) THEN "EnvelopeValidationError"
    ELSE IF ~ValidateEmail(email) THEN "EnvelopeValidationError"
    ELSE IF ~ValidateSigningOrder(signing_order) THEN "EnvelopeValidationError"
    ELSE IF Cardinality(RecipientsByEnvelope(rs, e)) >= MAX_RECIPIENTS
         THEN "EnvelopeValidationError"
    ELSE "ok"

\* Recipient(...) as add_recipient builds it and create_recipient stores it.
NewRecipient(e, name, email, role, signing_order, code) ==
    [envelope_id |-> e, name |-> name, email |-> email, role |-> role,
     signing_order |-> signing_order, status |-> "pending",
     access_code |-> code, access_code_hash |-> HashAccessCode(code),
     decline_reason |-> <<>>, viewed_at |-> 0]

\* A call that raises before it writes leaves every table as it was: it is
\* no step of the model, and <Op>Result tells which exception it raises.
AddRecipient(e, sender_id, name, email, role, signing_order, code, cap) ==
    /\ AddRecipientResult(envelopes, recipients, e, sender_id, name, email,
                          signing_order) = "ok"
    /\ Cardinality(RcpIds \ FreshRecipientIds(recipients)) < cap
    /\ LET r == NewRecipientId(recipients) IN
       /\ recipients' = [recipients EXCEPT ![r] =
              NewRecipient(e, name, email, role, signing_order, code)]
       /\ ret' = NothingMore
    /\ UNCHANGED <<envelopes, documents, now, procs, user_rows,
                reset_tokens, refresh_tokens>>

\* ---- create_envelope (continued)

CreateEnvelopeResult(docs, sender_id, subject, message, expiration_days, document_ids) ==
    IF ~ValidateSubject(subject) THEN "EnvelopeValidationError"
    ELSE IF ~ValidateMessage(message) THEN "EnvelopeValidationError"
    ELSE IF ~ValidateExpirationDays(expiration_days)
         THEN "EnvelopeValidationError"
    ELSE IF Len(document_ids) = 0 THEN "EnvelopeValidationError"
    ELSE IF Len(document_ids) > MAX_DOCUMENTS THEN "EnvelopeValidationError"
    ELSE IF ~IsDuplicateFree(document_ids) THEN "EnvelopeValidationError"
    ELSE DocumentsResult(docs, document_ids, sender_id, 1)

NewEnvelope(sender_id, subject, message, signing_order, expiration_days, document_ids) ==
    [sender_id |-> sender_id, subject |-> subject, message |-> message,
     status |-> "draft", signing_order |-> signing_order,
     expiration_days |-> expiration_days, expires_at |-> 0,
     void_reason |-> <<>>, sent_at |-> 0, completed_at |-> 0, voided_at |-> 0,
     expired_at |-> 0, document_ids |-> document_ids]

\* _increment_document_usage(document_id, 1) for each attached document.
IncrementDocumentUsage(docs, document_ids, delta) ==
    [d \in DocIds |->
        IF \E i \in 1..Len(document_ids) : document_ids[i] = d
        THEN [docs[d] EXCEPT !.in_use_by_envelopes = @ + delta]
        ELSE docs[d]]

\* The envelope id is uuid4(): an id no envelope row uses yet.
CreateEnvelope(e, sender_id, subject, message, document_ids, signing_order, expiration_days) ==
    /\ ~Exists(envelopes[e])
    /\ CreateEnvelopeResult(documents, sender_id, subject, message,
                            expiration_days, document_ids) = "ok"
    /\ envelopes' = [envelopes EXCEPT ![e] =
           NewEnvelope(sender_id, subject, message, signing_order,
                       expiration_days, document_ids)]
    /\ documents' = IncrementDocumentUsage(documents, document_ids, 1)
    /\ ret' = NothingMore
    /\ UNCHANGED <<recipients, now, procs, user_rows, reset_tokens, refresh_tokens>>

\* ---- update_envelope: an argument is {} for None, {v} for a value

\* Faulty variant: can_update tested before the sender.
UpdateEnvelopeResult_StatusFirst(envs, e, user_id, subject, message, expiration_days) ==
    IF ~Exists(envs[e]) THEN "EnvelopeNotFoundError"
    ELSE IF ~CanUpdate(envs[e]) THEN "EnvelopeValidationError"
    ELSE IF envs[e].sender_id # user_id THEN "EnvelopePermissionError"
    ELSE "ok"

UpdateEnvelopeResult(envs, e, user_id, subject, message, expiration_days) ==
    IF ~Exists(envs[e]) THEN "EnvelopeNotFoundError"
    ELSE IF envs[e].sender_id # user_id THEN "EnvelopePermissionError"
    ELSE IF ~CanUpdate(envs[e]) THEN "EnvelopeValidationError"
    ELSE IF \E v \in subject : ~ValidateSubject(v)
         THEN "EnvelopeValidationError"
    ELSE IF \E v \in message : ~ValidateMessage(v)
         THEN "EnvelopeValidationError"
    ELSE IF \E v \in expiration_days : ~ValidateExpirationDays(v)
         THEN "EnvelopeValidationError"
    ELSE "ok"

OrElse(opt, old) == IF opt = {} THEN old ELSE CHOOSE v \in opt : TRUE

UpdateEnvelope(e, user_id, subject, message, signing_order, expiration_days) ==
    /\ UpdateEnvelopeResult(envelopes, e, user_id, subject, message,
                            expiration_days) = "ok"
    /\ envelopes' = [envelopes EXCEPT ![e] =
           [@ EXCEPT !.subject = OrElse(subject, @),
                     !.message = OrElse(message, @),
                     !.signing_order = OrElse(signing_order, @),
                     !.expiration_days = OrElse(expiration_days, @)]]
    /\ ret' = NothingMore
    /\ UNCHANGED <<recipients, documents, now, procs, user_rows,
                reset_tokens, refresh_tokens>>

\* ---- send_envelope

\* Faulty variant: the has_signer test dropped.
SendEnvelopeResult_NoSignerTest(envs, rs, e, user_id) ==
    IF ~Exists(envs[e]) THEN "EnvelopeNotFoundError"
    ELSE IF envs[e].sender_id # user_id THEN "EnvelopePermissionError"
    ELSE IF ~CanSend(envs[e]) THEN "EnvelopeValidationError"
    ELSE IF RecipientsByEnvelope(rs, e) = {} THEN "EnvelopeValidationError"
    ELSE "ok"

SendEnvelopeResult(envs, rs, e, user_id) ==
    IF ~Exists(envs[e]) THEN "EnvelopeNotFoundError"
    ELSE IF envs[e].sender_id # user_id THEN "EnvelopePermissionError"
    ELSE IF ~CanSend(envs[e]) THEN "EnvelopeValidationError"
    ELSE IF RecipientsByEnvelope(rs, e) = {} THEN "EnvelopeValidationError"
    ELSE IF ~\E r \in RecipientsByEnvelope(rs, e) : rs[r].role = "signer"
         THEN "EnvelopeValidationError"
    ELSE "ok"

\* min(r.signing_order for r in recipients if r.role == SIGNER)
MinSignerOrder(rs, rcps) ==
    CHOOSE m \in {rs[r].signing_order : r \in {q \in rcps : rs[q].role = "signer"}} :
        \A r \in rcps : rs[r].role = "signer" => m <= rs[r].signing_order

\* Faulty variant: the role test of the sequential branch dropped.
SequentialSendTargets_AnyRole(rs, rcps) ==
    {r \in rcps : rs[r].signing_order = MinSignerOrder(rs, rcps)}

\* Sequential: the recipients send_envelope marks sent.
SequentialSendTargets(rs, rcps) ==
    {r \in rcps : /\ rs[r].signing_order = MinSignerOrder(rs, rcps)
                  /\ rs[r].role = "signer"}

\* Faulty variant: the parallel branch sends to signers only.
ParallelSendTargets_SignersOnly(rs, rcps) ==
    {r \in rcps : rs[r].role = "signer"}

\* Parallel: the recipients send_envelope marks sent.
ParallelSendTargets(rs, rcps) == rcps

SendTargets(env, rs, rcps) ==
    IF env.signing_order = "sequential"
    THEN SequentialSendTargets(rs, rcps)
    ELSE ParallelSendTargets(rs, rcps)

\* recipient.mark_sent(); update_recipient(recipient) for each of `targets`.
MarkAllSent(rs, targets) ==
    [r \in RcpIds |-> IF r \in targets THEN MarkSent(rs[r]) ELSE rs[r]]

SendEnvelope(e, user_id) ==
    /\ SendEnvelopeResult(envelopes, recipients, e, user_id) = "ok"
    /\ envelopes' = [envelopes EXCEPT ![e] = EnvSend(@, now)]
    /\ recipients' = MarkAllSent(recipients,
           SendTargets(envelopes[e], recipients,
                       RecipientsByEnvelope(recipients, e)))
    /\ ret' = NothingMore
    /\ UNCHANGED <<documents, now, procs, user_rows, reset_tokens, refresh_tokens>>

\* ---- void_envelope

\* envelope.void(reason) raises ValueError; the service does not translate it.
VoidEnvelopeResult(envs, e, user_id, reason) ==
    IF ~Exists(envs[e]) THEN "EnvelopeNotFoundError"
    ELSE IF envs[e].sender_id # user_id THEN "EnvelopePermissionError"
    ELSE IF ~CanVoid(envs[e]) THEN "ValueError"
    ELSE IF IsBlank(reason) THEN "ValueError"
    ELSE "ok"

VoidEnvelope(e, user_id, reason) ==
    /\ VoidEnvelopeResult(envelopes, e, user_id, reason) = "ok"
    /\ envelopes' = [envelopes EXCEPT ![e] = EnvVoid(@, reason, now)]
    /\ ret' = NothingMore
    /\ UNCHANGED <<recipients, documents, now, procs, user_rows,
                reset_tokens, refresh_tokens>>

\* ---- update_recipient_signing_order

\* recipient_orders is a list of [recipient_id, signing_order]; each entry is
\* written before the next one is looked at.
RECURSIVE ApplyRecipientOrders(_, _, _, _)
ApplyRecipientOrders(rs, e, recipient_orders, i) ==
    IF i > Len(recipient_orders) THEN [rs |-> rs, result |-> "ok"]
    ELSE LET o == recipient_orders[i] IN
         IF o.recipient_id \notin RcpIds \/ ~Exists(rs[o.recipient_id])
         THEN [rs |-> rs, result |-> "RecipientNotFoundError"]
         ELSE IF rs[o.recipient_id].envelope_id # e
         THEN [rs |-> rs, result |-> "EnvelopeValidationError"]
         ELSE ApplyRecipientOrders(
                  [rs EXCEPT ![o.recipient_id].signing_order = o.signing_order],
                  e, recipient_orders, i + 1)

UpdateRecipientSigningOrderResult(envs, e, user_id) ==
    IF ~Exists(envs[e]) THEN "EnvelopeNotFoundError"
    ELSE IF envs[e].sender_id # user_id THEN "EnvelopePermissionError"
    ELSE IF envs[e].status # "draft" THEN "EnvelopeValidationError"
    ELSE "ok"

\* An entry that raises leaves the entries before it written.
UpdateRecipientSigningOrder(e, user_id, recipient_orders) ==
    LET applied == ApplyRecipientOrders(recipients, e, recipient_orders, 1)
    IN  /\ UpdateRecipientSigningOrderResult(envelopes, e, user_id) = "ok"
        /\ applied.result = "ok" \/ applied.rs # recipients
        /\ recipients' = applied.rs
        /\ ret' = NothingMore
        /\ UNCHANGED <<envelopes, documents, now, procs, user_rows,
                reset_tokens, refresh_tokens>>

\* ---- mark_recipient_viewed

MarkRecipientViewedResult(rs, e, r) ==
    IF ~Exists(rs[r]) THEN "RecipientNotFoundError"
    ELSE IF rs[r].envelope_id # e THEN "EnvelopeValidationError"
    ELSE "ok"

MarkRecipientViewed(e, r) ==
    /\ MarkRecipientViewedResult(recipients, e, r) = "ok"
    /\ recipients' = [recipients EXCEPT ![r] = MarkViewed(@, now)]
    /\ ret' = NothingMore
    /\ UNCHANGED <<envelopes, documents, now, procs, user_rows,
                reset_tokens, refresh_tokens>>

\* ---- mark_recipient_signed

\* recipient.mark_signed() raises ValueError; the service does not translate it.
MarkRecipientSignedResult(rs, e, r) ==
    IF ~Exists(rs[r]) THEN "RecipientNotFoundError"
    ELSE IF rs[r].envelope_id # e THEN "EnvelopeValidationError"
    ELSE IF ~CanSign(rs[r]) THEN "ValueError"
    ELSE "ok"

\* Faulty variant: the recipients of the signer's own order, not the next.
NextOrderRecipients_SameOrder(rs, e, current_order) ==
    {r \in RecipientsByEnvelope(rs, e) :
        /\ rs[r].signing_order = current_order
        /\ rs[r].role = "signer"
        /\ rs[r].status = "pending"}

\* The recipients the sequential advance marks sent after a signer of
\* signing order current_order has signed.
NextOrderRecipients(rs, e, current_order) ==
    {r \in RecipientsByEnvelope(rs, e) :
        /\ rs[r].signing_order = current_order + 1
        /\ rs[r].role = "signer"
        /\ rs[r].status = "pending"}

MarkRecipientSigned(e, r) ==
    LET signed == [recipients EXCEPT ![r] = MarkSigned(@)]
        envelope_completed == CountPendingRecipients(signed, e) = 0
    IN  /\ MarkRecipientSignedResult(recipients, e, r) = "ok"
        /\ IF envelope_completed
           THEN /\ recipients' = signed
                /\ envelopes' = [envelopes EXCEPT ![e] = EnvComplete(@, now)]
           ELSE /\ UNCHANGED envelopes
                /\ recipients' =
                     IF envelopes[e].signing_order = "sequential"
                     THEN MarkAllSent(signed, NextOrderRecipients(
                              signed, e, recipients[r].signing_order))
                     ELSE signed
        /\ ret' = Returned(envelope_completed)
        /\ UNCHANGED <<documents, now, procs, user_rows, reset_tokens, refresh_tokens>>

\* ---- decline_envelope

\* recipient.mark_declined(reason) raises ValueError on a blank reason.
DeclineEnvelopeResult(rs, e, r, reason) ==
    IF ~Exists(rs[r]) THEN "RecipientNotFoundError"
    ELSE IF rs[r].envelope_id # e THEN "EnvelopeValidationError"
    ELSE IF IsBlank(reason) THEN "ValueError"
    ELSE "ok"

DeclineEnvelope(e, r, reason) ==
    /\ DeclineEnvelopeResult(recipients, e, r, reason) = "ok"
    /\ recipients' = [recipients EXCEPT ![r] = MarkDeclined(@, reason)]
    /\ envelopes' = [envelopes EXCEPT ![e] = EnvDecline(@)]
    /\ ret' = NothingMore
    /\ UNCHANGED <<documents, now, procs, user_rows, reset_tokens, refresh_tokens>>

\* ---- the recipient a repository call returns

\* _recipient_to_domain: every column of the row, access_code included.
RecipientToDomain(row) ==
    [envelope_id |-> row.envelope_id, name |-> row.name, email |-> row.email,
     role |-> row.role, signing_order |-> row.signing_order,
     status |-> row.status, access_code |-> row.access_code,
     access_code_hash |-> row.access_code_hash,
     decline_reason |-> row.decline_reason, viewed_at |-> row.viewed_at]

\* ---- get_envelope

\* The user accounts: register() stores the email in lower case.
SenderEmail == <<"s", "@", "b", ".", "c">>
Accounts == ("u1" :> SenderEmail) @@ ("u2" :> Email1)

\* Callers of get_envelope: the users and an id without an account.
Callers == Users \cup {"u3"}

\* The public methods class UserRepository defines.
UserRepositoryMethods ==
    {"create", "get_by_id", "get_by_email", "email_exists", "update", "delete"}

\* self.user_repository.get_user_by_id(user_id): the attribute lookup on a
\* UserRepository comes first; the row lookup is what get_by_id does.
GetUserById(user_id) ==
    IF "get_user_by_id" \notin UserRepositoryMethods
    THEN [raised |-> "AttributeError", user |-> {}]
    ELSE [raised |-> "none",
          user |-> IF user_id \in DOMAIN Accounts
                   THEN {[email |-> Accounts[user_id]]} ELSE {}]

GetEnvelopeResult(envs, rs, e, user_id) ==
    LET is_sender == envs[e].sender_id = user_id
        recipient_emails == {rs[r].email : r \in RecipientsByEnvelope(rs, e)}
        found == GetUserById(user_id)
    IN  IF ~Exists(envs[e]) THEN "EnvelopeNotFoundError"
        ELSE IF ~is_sender /\ found.raised # "none" THEN found.raised
        ELSE IF ~is_sender /\ ~\E u \in found.user : u.email \in recipient_emails
             THEN "EnvelopePermissionError"
        ELSE IF GetUserById(envs[e].sender_id).raised # "none"
             THEN GetUserById(envs[e].sender_id).raised
        ELSE "ok"

\* The recipients get_envelope returns: copies, the access code set to None
\* unless the caller is the sender and asked for the codes.
GetEnvelopeRecipients(envs, rs, e, user_id, include_access_codes) ==
    LET is_sender == envs[e].sender_id = user_id
    IN  [r \in RecipientsByEnvelope(rs, e) |->
            IF ~is_sender \/ ~include_access_codes
            THEN [RecipientToDomain(rs[r]) EXCEPT !.access_code = "none"]
            ELSE RecipientToDomain(rs[r])]

\* What a call of get_envelope gives its caller: the exception it raises,
\* or "ok" and the recipients it returns.
GetEnvelope(envs, rs, e, user_id, include_access_codes) ==
    LET result == GetEnvelopeResult(envs, rs, e, user_id)
    IN  [result |-> result,
         recipients |-> IF result = "ok"
                        THEN GetEnvelopeRecipients(envs, rs, e, user_id,
                                                   include_access_codes)
                        ELSE <<>>]

\* ---- verify_recipient_access

\* str.lower() on the letters in use.
Lower(s) == [i \in 1..Len(s) |-> IF s[i] = "A" THEN "a" ELSE s[i]]

\* get_recipient_by_access_code_hash: the rows the query selects;
\* scalar_one_or_none raises MultipleResultsFound on more than one.
RecipientsByAccessCodeHash(rs, e, access_code_hash) ==
    {r \in RcpIds : /\ Exists(rs[r])
                    /\ rs[r].envelope_id = e
                    /\ rs[r].access_code_hash = access_code_hash}

\* "found", "None" (the not-found result) or the exception raised.
VerifyRecipientAccessResult(rs, e, email, access_code) ==
    LET rows == RecipientsByAccessCodeHash(rs, e, HashAccessCode(access_code))
    IN  IF Cardinality(rows) > 1 THEN "MultipleResultsFound"
        ELSE IF rows = {} THEN "None"
        ELSE IF \E r \in rows : Lower(rs[r].email) # Lower(email) THEN "None"
        ELSE "found"

\* The row id of the recipient verify_recipient_access returns.
VerifiedRecipient(rs, e, email, access_code) ==
    CHOOSE r \in RecipientsByAccessCodeHash(rs, e, HashAccessCode(access_code)) :
        TRUE

\* A call that returns: ret holds what it returns, {} for None and the
\* returned recipient (its row id and the record) otherwise.
VerifyRecipientAccess(e, email, access_code) ==
    LET result == VerifyRecipientAccessResult(recipients, e, email, access_code)
        r == VerifiedRecipient(recipients, e, email, access_code)
    IN  /\ result \in {"found", "None"}
        /\ ret' = IF result = "found"
                  THEN {[recipient_id |-> r,
                         recipient |-> RecipientToDomain(recipients[r])]}
                  ELSE {}
        /\ UNCHANGED <<envelopes, recipients, documents, now, procs, user_rows,
                reset_tokens, refresh_tokens>>

\* ---- delete_envelope, remove_document_from_envelope (repository)

\* delete_envelope: the envelope row is deleted, and with it (ON DELETE
\* CASCADE) its recipient rows and its document links; no document row is
\* touched.
DeleteEnvelopeRow(e) ==
    /\ Exists(envelopes[e])
    /\ envelopes' = [envelopes EXCEPT ![e] = NoEnvelope]
    /\ recipients' = [r \in RcpIds |->
                         IF r \in RecipientsByEnvelope(recipients, e)
                         THEN NoRecipient ELSE recipients[r]]
    /\ ret' = Returned(TRUE)
    /\ UNCHANGED <<documents, now, procs, user_rows, reset_tokens, refresh_tokens>>

HasDocument(env, d) == \E i \in 1..Len(env.document_ids) : env.document_ids[i] = d

WithoutDocument(document_ids, d) ==
    SelectSeq(document_ids, LAMBDA x : x # d)

\* remove_document_from_envelope: False when there is no such link; else the
\* link is deleted and _increment_document_usage(document_id, -1) follows.
RemoveDocumentFromEnvelope(e, d) ==
    /\ IF Exists(envelopes[e]) /\ HasDocument(envelopes[e], d)
       THEN /\ envelopes' = [envelopes EXCEPT ![e].document_ids =
                                 WithoutDocument(@, d)]
            /\ documents' = IncrementDocumentUsage(documents, <<d>>, -1)
            /\ ret' = Returned(TRUE)
       ELSE /\ ret' = Returned(FALSE)
            /\ UNCHANGED <<envelopes, documents>>
    /\ UNCHANGED <<recipients, now, procs, user_rows, reset_tokens, refresh_tokens>>

\* ------------------------------------------------------ document service

\* Faulty variant: the in-use test dropped.
CanBeDeleted_Always(doc) == TRUE

CanBeDeleted(doc) == ~(doc.in_use_by_envelopes > 0)

SoftDelete(doc, t) == [doc EXCEPT !.deleted_at = t]

\* get_document: get_document_by_id leaves out soft-deleted rows.
GetDocumentResult(docs, d, user_id) ==
    IF ~Exists(docs[d]) \/ docs[d].deleted_at # 0 THEN "DocumentNotFoundError"
    ELSE IF docs[d].user_id # user_id THEN "DocumentPermissionError"
    ELSE "ok"

DeleteDocumentResult(docs, d, user_id) ==
    IF GetDocumentResult(docs, d, user_id) # "ok"
    THEN GetDocumentResult(docs, d, user_id)
    ELSE IF ~CanBeDeleted(docs[d]) THEN "DocumentServiceError"
    ELSE "ok"

DeleteDocument(d, user_id) ==
    /\ DeleteDocumentResult(documents, d, user_id) = "ok"
    /\ documents' = [documents EXCEPT ![d] = SoftDelete(@, now)]
    /\ ret' = Returned(TRUE)
    /\ UNCHANGED <<envelopes, recipients, now, procs, user_rows,
                reset_tokens, refresh_tokens>>

\* ------------------------------------------------- authentication service

max_login_attempts == 5
account_lockout_minutes == 30

Passwords == {"right", "wrong"}

\* pwd_context.hash / pwd_context.verify: a hash verifies its own password.
HashPassword(password) == <<"hash", password>>

VerifyPassword(user, password) == user.password_hash = HashPassword(password)

\* The user rows register_user has stored, email in lower case; u1 has
\* verified its email (verify_email), u2 has not.
RegisteredUsers ==
    [u \in Users |->
        [email |-> Accounts[u], password_hash |-> HashPassword("right"),
         email_verified |-> (u = "u1"), account_locked |-> FALSE,
         locked_until |-> 0, failed_login_attempts |-> 0]]

\* Faulty variant: the expiry comparison reversed, so that a lock counts as
\* expired until locked_until.
IsLocked_ExpiryReversed(user, t) ==
    IF ~user.account_locked THEN FALSE
    ELSE IF user.locked_until # 0 /\ t <= user.locked_until THEN FALSE
    ELSE TRUE

IsLocked(user, t) ==
    IF ~user.account_locked THEN FALSE
    ELSE IF user.locked_until # 0 /\ t >= user.locked_until THEN FALSE
    ELSE TRUE

\* Faulty variant: the account locked only after more than max_attempts.
RecordFailedLogin_AfterMax(user, max_attempts, lockout_minutes, t) ==
    LET attempts == user.failed_login_attempts + 1
    IN  IF attempts > max_attempts
        THEN [user EXCEPT !.failed_login_attempts = attempts,
                          !.account_locked = TRUE,
                          !.locked_until = t + lockout_minutes]
        ELSE [user EXCEPT !.failed_login_attempts = attempts]

RecordFailedLogin(user, max_attempts, lockout_minutes, t) ==
    LET attempts == user.failed_login_attempts + 1
    IN  IF attempts >= max_attempts
        THEN [user EXCEPT !.failed_login_attempts = attempts,
                          !.account_locked = TRUE,
                          !.locked_until = t + lockout_minutes]
        ELSE [user EXCEPT !.failed_login_attempts = attempts]

RecordSuccessfulLogin(user) ==
    [user EXCEPT !.failed_login_attempts = 0, !.account_locked = FALSE,
                 !.locked_until = 0]

UnlockAccount(user) ==
    [user EXCEPT !.account_locked = FALSE, !.locked_until = 0,
                 !.failed_login_attempts = 0]

\* user_repo.get_by_email: the rows whose email is email.lower().
GetByEmail(rows, email) == {u \in Users : rows[u].email = Lower(email)}

\* What login raises, "ok" when it returns the tokens.
LoginResult(rows, email, password, t) ==
    IF GetByEmail(rows, email) = {} THEN "InvalidCredentialsError"
    ELSE LET user == rows[CHOOSE u \in GetByEmail(rows, email) : TRUE]
         IN  IF IsLocked(user, t) THEN "AccountLockedError"
             ELSE IF ~VerifyPassword(user, password)
                  THEN "InvalidCredentialsError"
             ELSE IF ~user.email_verified THEN "EmailNotVerifiedError"
             ELSE "ok"

\* The user rows after the call: a wrong password on an account that is not
\* locked is recorded and persisted before the call raises.
LoginRows(rows, email, password, t) ==
    IF GetByEmail(rows, email) = {} THEN rows
    ELSE LET u == CHOOSE u \in GetByEmail(rows, email) : TRUE
         IN  IF IsLocked(rows[u], t) THEN rows
             ELSE IF ~VerifyPassword(rows[u], password)
                  THEN [rows EXCEPT ![u] = RecordFailedLogin(
                           @, max_login_attempts, account_lockout_minutes, t)]
             ELSE IF ~rows[u].email_verified THEN rows
             ELSE [rows EXCEPT ![u] = RecordSuccessfulLogin(@)]

\* create_refresh_token: the row of a token string not issued before.
FreshRefreshTokens(tks) == {k \in TokenIds : tks[k].user_id = "none"}

CreateRefreshToken(tks, user_id) ==
    [tks EXCEPT ![CHOOSE k \in FreshRefreshTokens(tks) :
                     \A j \in FreshRefreshTokens(tks) : k <= j] =
        [user_id |-> user_id, revoked |-> FALSE]]

\* A call of login: ret holds what it raised, or "ok"; a login that
\* succeeds stores its refresh token (at most MaxTokens of them are issued).
Login(email, password) ==
    /\ user_rows' = LoginRows(user_rows, email, password, now)
    /\ ret' = {LoginResult(user_rows, email, password, now)}
    /\ IF LoginResult(user_rows, email, password, now) = "ok"
       THEN /\ FreshRefreshTokens(refresh_tokens) # {}
            /\ refresh_tokens' = CreateRefreshToken(refresh_tokens,
                   CHOOSE u \in GetByEmail(user_rows, email) : TRUE)
       ELSE UNCHANGED refresh_tokens
    /\ UNCHANGED <<envelopes, recipients, documents, now, procs,
                   reset_tokens>>

\* user.unlock_account(); user_repo.update(user)
UnlockUser(u) ==
    /\ user_rows' = [user_rows EXCEPT ![u] = UnlockAccount(@)]
    /\ ret' = NothingMore
    /\ UNCHANGED <<envelopes, recipients, documents, now, procs,
                reset_tokens, refresh_tokens>>

\* ---- request_password_reset, reset_password, refresh_access_token

\* The passwords reset_password is called with: the first meets
\* validate_password_strength (12 characters, upper and lower case, a
\* digit, not a common password), the second is too short.
NewPasswords == {"NewSecurePassword123!", "short"}

ValidatePasswordStrength(password) == password = "NewSecurePassword123!"

\* create_reset_token for the user of the email; an unknown email returns
\* without a token. The row of a token string not issued before.
FreshResetTokens(tks) == {k \in TokenIds : tks[k].user_id = "none"}

RequestPasswordReset(email) ==
    /\ GetByEmail(user_rows, email) # {}
    /\ FreshResetTokens(reset_tokens) # {}
    /\ reset_tokens' =
          [reset_tokens EXCEPT ![CHOOSE k \in FreshResetTokens(reset_tokens) :
                  \A j \in FreshResetTokens(reset_tokens) : k <= j] =
              [user_id |-> CHOOSE u \in GetByEmail(user_rows, email) : TRUE,
               used |-> FALSE, deleted |-> FALSE]]
    /\ ret' = NothingMore
    /\ UNCHANGED <<envelopes, recipients, documents, now, procs, user_rows,
                   refresh_tokens>>

\* validate_reset_token finds the row: the token, used_at IS NULL (the
\* expiry, reset_token_expire_hours after the request, lies beyond the times
\* the specifications reach).
ResetTokenIsValid(tks, token) ==
    /\ tks[token].user_id # "none"
    /\ ~tks[token].deleted
    /\ ~tks[token].used

\* What reset_password raises, "ok" when it returns.
ResetPasswordResult(tks, token, new_password) ==
    IF ~ResetTokenIsValid(tks, token) THEN "InvalidTokenError"
    ELSE IF ~ValidatePasswordStrength(new_password) THEN "ValueError"
    ELSE "ok"

\* revoke_all_user_tokens: revoked_at on the user's rows that have none.
RevokeAllUserTokens(tks, user_id) ==
    [k \in TokenIds |->
        IF tks[k].user_id = user_id THEN [tks[k] EXCEPT !.revoked = TRUE]
        ELSE tks[k]]

\* delete_reset_tokens: the user's rows leave the table.
DeleteResetTokens(tks, user_id) ==
    [k \in TokenIds |->
        IF tks[k].user_id = user_id THEN [tks[k] EXCEPT !.deleted = TRUE]
        ELSE tks[k]]

\* validate_reset_token marks the token used before the password is looked
\* at: a call that raises ValueError has used the token up. A call with a
\* token that is not valid writes nothing and is no step.
ResetPassword(token, new_password) ==
    LET result == ResetPasswordResult(reset_tokens, token, new_password)
        user_id == reset_tokens[token].user_id
        used == [reset_tokens EXCEPT ![token].used = TRUE]
    IN  /\ result # "InvalidTokenError"
        /\ ret' = {result}
        /\ IF result = "ok"
           THEN /\ user_rows' = [user_rows EXCEPT ![user_id].password_hash =
                                     HashPassword(new_password)]
                /\ refresh_tokens' =
                      RevokeAllUserTokens(refresh_tokens, user_id)
                /\ reset_tokens' = DeleteResetTokens(used, user_id)
           ELSE /\ reset_tokens' = used
                /\ UNCHANGED <<user_rows, refresh_tokens>>
        /\ UNCHANGED <<envelopes, recipients, documents, now, procs>>

\* Faulty variant: revoked_at not looked at.
RefreshAccessTokenResult_RevokedIgnored(tks, token) ==
    IF tks[token].user_id = "none" THEN "InvalidTokenError" ELSE "ok"

\* What refresh_access_token raises, "ok" when it returns an access token:
\* validate_refresh_token finds the row by the token's hash with
\* revoked_at IS NULL (the expiry, refresh_token_expire_days after the
\* login, lies beyond the times the specifications reach).
RefreshAccessTokenResult(tks, token) ==
    IF tks[token].user_id = "none" \/ tks[token].revoked
    THEN "InvalidTokenError"
    ELSE "ok"

\* A call of refresh_access_token; it writes last_used_at only.
RefreshAccessToken(token) ==
    /\ ret' = {RefreshAccessTokenResult(refresh_tokens, token)}
    /\ UNCHANGED <<envelopes, recipients, documents, now, procs, user_rows,
                   reset_tokens, refresh_tokens>>

\* ------------------------------------------------------- specification

ProcIds == {1, 2}

\* A request that has not started: no operation, no local copies.
IdleProc ==
    [op |-> "none", pc |-> "idle", env |-> 0, rcp |-> 0, user |-> "none",
     reason |-> <<>>, recipient |-> NoRecipient, envelope |-> NoEnvelope,
     doc |-> "none", document |-> NoDocument, pending_count |-> 0,
     snapshot |-> <<>>, todo |-> {}, result |-> "none", ret |-> {}]

Idle == [p \in ProcIds |-> IdleProc]

Init ==
    /\ envelopes = [e \in EnvIds |-> NoEnvelope]
    /\ recipients = [r \in RcpIds |-> NoRecipient]
    /\ documents = [d \in DocIds |->
                       [user_id |-> "u1", status |-> "ready",
                        in_use_by_envelopes |-> 0, deleted_at |-> 0]]
    /\ now = 1
    /\ ret = NothingMore
    /\ procs = Idle
    /\ user_rows = RegisteredUsers
    /\ reset_tokens = [k \in TokenIds |-> NoResetToken]
    /\ refresh_tokens = [k \in TokenIds |-> NoRefreshToken]

Next ==
    \/ \E e \in EnvIds, u \in Users, m \in SigningOrder :
          CreateEnvelope(e, u, Subject1, <<>>, <<"d1">>, m,
                         DEFAULT_EXPIRATION_DAYS)
    \/ \E e \in EnvIds, u \in Users, m \in SigningOrder :
          UpdateEnvelope(e, u, {}, {}, {m}, {})
    \/ \E e \in EnvIds, u \in Users, role \in RecipientRole, o \in Orders :
          AddRecipient(e, u, Name1, Email1, role, o, Code1, MaxRecipients)
    \/ \E e \in EnvIds, u \in Users, r \in RcpIds, o \in Orders :
          UpdateRecipientSigningOrder(e, u,
              <<[recipient_id |-> r, signing_order |-> o]>>)
    \/ \E e \in EnvIds, u \in Users : SendEnvelope(e, u)
    \/ \E e \in EnvIds, u \in Users, reason \in Reasons :
          VoidEnvelope(e, u, reason)
    \/ \E e \in EnvIds, r \in RcpIds : MarkRecipientViewed(e, r)
    \/ \E e \in EnvIds, r \in RcpIds : MarkRecipientSigned(e, r)
    \/ \E e \in EnvIds, r \in RcpIds, reason \in Reasons :
          DeclineEnvelope(e, r, reason)

Spec == Init /\ [][Next]_vars

\* --------------------------------------- sequential signing, notified only

\* Signing orders with a gap above the ones Spec uses.
SeqOrders == 1..(MaxOrder + 1)

\* A recipient acts on the notification it got: it is sent or viewed.
Notified(r) == recipients[r].status \in {"sent", "viewed"}

ViewNotified(e, r) == Notified(r) /\ MarkRecipientViewed(e, r)

SignNotified(e, r) == Notified(r) /\ MarkRecipientSigned(e, r)

\* A sequential envelope that nobody declines or voids.
NextSeq ==
    \/ \E e \in EnvIds :
          CreateEnvelope(e, "u1", Subject1, <<>>, <<"d1">>, "sequential",
                         DEFAULT_EXPIRATION_DAYS)
    \/ \E e \in EnvIds, role \in RecipientRole, o \in SeqOrders :
          AddRecipient(e, "u1", Name1, Email1, role, o, Code1,
                       MaxRecipients + 1)
    \/ \E e \in EnvIds : SendEnvelope(e, "u1")
    \/ \E e \in EnvIds, r \in RcpIds : ViewNotified(e, r)
    \/ \E e \in EnvIds, r \in RcpIds : SignNotified(e, r)

\* Every signer that has been marked sent eventually signs.
SpecSeq ==
    /\ Init
    /\ [][NextSeq]_vars
    /\ \A e \in EnvIds, r \in RcpIds : WF_vars(SignNotified(e, r))

\* ------------------------------------------ concurrent requests, by await

\* Two requests run the service coroutines side by side. A step is what a
\* coroutine does up to and including one repository call (one await); the
\* call reads or writes the persisted rows directly, without a lock and
\* without a version check (update_recipient, update_envelope).

Finish(p, result, b) ==
    procs' = [procs EXCEPT ![p].pc = "done", ![p].result = result,
                           ![p].ret = b]

\* ---- mark_recipient_signed, await by await

BeginSign(p, e, r) ==
    /\ procs[p].pc = "idle"
    /\ procs' = [procs EXCEPT ![p].op = "MarkRecipientSigned",
                              ![p].pc = "sign_get_recipient",
                              ![p].env = e, ![p].rcp = r]
    /\ UNCHANGED <<envelopes, recipients, documents, now, ret, user_rows,
                reset_tokens, refresh_tokens>>

\* recipient = await get_recipient_by_id(recipient_id), and the two checks.
SignGetRecipient(p) ==
    LET e == procs[p].env
        r == procs[p].rcp
        found == MarkRecipientViewedResult(recipients, e, r)
    IN  /\ procs[p].pc = "sign_get_recipient"
        /\ IF found = "ok"
           THEN procs' = [procs EXCEPT ![p].recipient = recipients[r],
                                       ![p].pc = "sign_update_recipient"]
           ELSE Finish(p, found, {})
        /\ UNCHANGED <<envelopes, recipients, documents, now, ret, user_rows,
                reset_tokens, refresh_tokens>>

\* recipient.mark_signed(); await update_recipient(recipient)
SignUpdateRecipient(p) ==
    LET r == procs[p].rcp
        mine == procs[p].recipient
    IN  /\ procs[p].pc = "sign_update_recipient"
        /\ IF CanSign(mine)
           THEN /\ recipients' = [recipients EXCEPT ![r] =
                                     UpdateRecipientRow(@, MarkSigned(mine))]
                /\ procs' = [procs EXCEPT ![p].recipient = MarkSigned(mine),
                                          ![p].pc = "sign_count_pending"]
           ELSE /\ Finish(p, "ValueError", {})
                /\ UNCHANGED recipients
        /\ UNCHANGED <<envelopes, documents, now, ret, user_rows,
                reset_tokens, refresh_tokens>>

\* pending_count = await count_pending_recipients(envelope_id)
SignCountPending(p) ==
    /\ procs[p].pc = "sign_count_pending"
    /\ procs' = [procs EXCEPT
           ![p].pending_count = CountPendingRecipients(recipients, procs[p].env),
           ![p].pc = "sign_get_envelope"]
    /\ UNCHANGED <<envelopes, recipients, documents, now, ret, user_rows,
                reset_tokens, refresh_tokens>>

\* envelope = await get_envelope_by_id(envelope_id), in either branch.
SignGetEnvelope(p) ==
    LET mine == envelopes[procs[p].env]
    IN  /\ procs[p].pc = "sign_get_envelope"
        /\ IF procs[p].pending_count = 0
           THEN procs' = [procs EXCEPT ![p].envelope = mine,
                                       ![p].pc = "sign_complete_envelope"]
           ELSE IF mine.signing_order = "sequential"
           THEN procs' = [procs EXCEPT ![p].envelope = mine,
                                       ![p].pc = "sign_get_recipients"]
           ELSE Finish(p, "ok", {FALSE})
        /\ UNCHANGED <<envelopes, recipients, documents, now, ret, user_rows,
                reset_tokens, refresh_tokens>>

\* envelope.complete(); await update_envelope(envelope)
SignCompleteEnvelope(p) ==
    LET e == procs[p].env
    IN  /\ procs[p].pc = "sign_complete_envelope"
        /\ envelopes' = [envelopes EXCEPT ![e] =
               UpdateEnvelopeRow(@, EnvComplete(procs[p].envelope, now))]
        /\ Finish(p, "ok", {TRUE})
        /\ UNCHANGED <<recipients, documents, now, ret, user_rows,
                reset_tokens, refresh_tokens>>

\* recipients = await get_recipients_by_envelope(envelope_id)
SignGetRecipients(p) ==
    /\ procs[p].pc = "sign_get_recipients"
    /\ procs' = [procs EXCEPT
           ![p].snapshot = recipients,
           ![p].todo = NextOrderRecipients(recipients, procs[p].env,
                                           procs[p].recipient.signing_order),
           ![p].pc = "sign_send_next"]
    /\ UNCHANGED <<envelopes, recipients, documents, now, ret, user_rows,
                reset_tokens, refresh_tokens>>

\* next_recipient.mark_sent(); await update_recipient(next_recipient)
SignSendNext(p) ==
    /\ procs[p].pc = "sign_send_next"
    /\ IF procs[p].todo = {}
       THEN /\ Finish(p, "ok", {FALSE})
            /\ UNCHANGED recipients
       ELSE LET q == CHOOSE q \in procs[p].todo :
                         \A o \in procs[p].todo : q <= o
            IN  /\ recipients' = [recipients EXCEPT ![q] =
                       UpdateRecipientRow(@, MarkSent(procs[p].snapshot[q]))]
                /\ procs' = [procs EXCEPT ![p].todo = @ \ {q}]
    /\ UNCHANGED <<envelopes, documents, now, ret, user_rows,
                reset_tokens, refresh_tokens>>

\* ---- void_envelope, await by await

BeginVoid(p, e, user_id, reason) ==
    /\ procs[p].pc = "idle"
    /\ procs' = [procs EXCEPT ![p].op = "VoidEnvelope",
                              ![p].pc = "void_get_envelope",
                              ![p].env = e, ![p].user = user_id,
                              ![p].reason = reason]
    /\ UNCHANGED <<envelopes, recipients, documents, now, ret, user_rows,
                reset_tokens, refresh_tokens>>

\* envelope = await get_envelope_by_id(envelope_id), and the sender check.
VoidGetEnvelope(p) ==
    LET e == procs[p].env
    IN  /\ procs[p].pc = "void_get_envelope"
        /\ IF ~Exists(envelopes[e])
           THEN Finish(p, "EnvelopeNotFoundError", {})
           ELSE IF envelopes[e].sender_id # procs[p].user
           THEN Finish(p, "EnvelopePermissionError", {})
           ELSE procs' = [procs EXCEPT ![p].envelope = envelopes[e],
                                       ![p].pc = "void_update_envelope"]
        /\ UNCHANGED <<envelopes, recipients, documents, now, ret, user_rows,
                reset_tokens, refresh_tokens>>

\* envelope.void(reason); await update_envelope(envelope)
VoidUpdateEnvelope(p) ==
    LET e == procs[p].env
        mine == procs[p].envelope
    IN  /\ procs[p].pc = "void_update_envelope"
        /\ IF CanVoid(mine) /\ ~IsBlank(procs[p].reason)
           THEN /\ envelopes' = [envelopes EXCEPT ![e] =
                       UpdateEnvelopeRow(@, EnvVoid(mine, procs[p].reason, now))]
                /\ Finish(p, "ok", {})
           ELSE /\ Finish(p, "ValueError", {})
                /\ UNCHANGED envelopes
        /\ UNCHANGED <<recipients, documents, now, ret, user_rows,
                reset_tokens, refresh_tokens>>

\* A sent envelope with signers 1 and 2 of order 1 and, when `third` is a
\* role, a third recipient of order 2: the rows create_envelope,
\* add_recipient and send_envelope leave.
SentEnvelopeRows(env, third) ==
    LET rows == [r \in RcpIds |->
                    IF r \in {1, 2}
                    THEN NewRecipient(1, Name1, Email1, "signer", 1, Code1)
                    ELSE IF r = 3 /\ third \in RecipientRole
                    THEN NewRecipient(1, Name1, Email1, third, 2, Code1)
                    ELSE NoRecipient]
    IN  MarkAllSent(rows, SendTargets(env, rows, RecipientsByEnvelope(rows, 1)))

\* The same rows after signer 2 has signed through mark_recipient_signed
\* (signer 1 is still open, so the envelope stays sent).
SignerTwoSignedRows(env, third) ==
    LET signed == [SentEnvelopeRows(env, third) EXCEPT ![2] = MarkSigned(@)]
    IN  IF env.signing_order = "sequential"
        THEN MarkAllSent(signed, NextOrderRecipients(signed, 1, 1))
        ELSE signed

InitConc ==
    \E m \in SigningOrder, third \in RecipientRole \cup {"none"},
       two_signed \in BOOLEAN :
        LET env == NewEnvelope("u1", Subject1, <<>>, m,
                               DEFAULT_EXPIRATION_DAYS, <<"d1">>)
        IN  /\ envelopes = [e \in EnvIds |-> EnvSend(env, 1)]
            /\ recipients = IF two_signed
                            THEN SignerTwoSignedRows(env, third)
                            ELSE SentEnvelopeRows(env, third)
            /\ documents = [d \in DocIds |->
                   [user_id |-> "u1", status |-> "ready",
                    in_use_by_envelopes |-> 1, deleted_at |-> 0]]
            /\ now = 1
            /\ ret = NothingMore
            /\ procs = Idle
            /\ user_rows = RegisteredUsers
            /\ reset_tokens = [k \in TokenIds |-> NoResetToken]
            /\ refresh_tokens = [k \in TokenIds |-> NoRefreshToken]

NextConc ==
    \/ \E p \in ProcIds, e \in EnvIds, r \in RcpIds : BeginSign(p, e, r)
    \/ \E p \in ProcIds : SignGetRecipient(p)
    \/ \E p \in ProcIds : SignUpdateRecipient(p)
    \/ \E p \in ProcIds : SignCountPending(p)
    \/ \E p \in ProcIds : SignGetEnvelope(p)
    \/ \E p \in ProcIds : SignCompleteEnvelope(p)
    \/ \E p \in ProcIds : SignGetRecipients(p)
    \/ \E p \in ProcIds : SignSendNext(p)
    \/ \E p \in ProcIds, e \in EnvIds, u \in Users :
          BeginVoid(p, e, u, <<"x">>)
    \/ \E p \in ProcIds : VoidGetEnvelope(p)
    \/ \E p \in ProcIds : VoidUpdateEnvelope(p)

SpecConc == InitConc /\ [][NextConc]_vars

\* ------------------------------------- access codes and recipient access

\* The codes generate_access_code may draw (two of the 10^6), and a code
\* that was never drawn.
Code2 == "000001"
Codes == {Code1, Code2}
ForeignCode == "999999"

\* Recipient emails: Email1 and the same address in another case; Email2 is
\* nobody's.
EmailUpper == <<"A", "@", "b", ".", "c">>
Email2 == <<"z", "@", "b", ".", "c">>
RecipientEmails == {Email1, EmailUpper}
Emails == RecipientEmails \cup {Email2}

NextAccess ==
    \/ \E e \in EnvIds :
          CreateEnvelope(e, "u1", Subject1, <<>>, <<"d1">>, "parallel",
                         DEFAULT_EXPIRATION_DAYS)
    \/ \E e \in EnvIds, email \in RecipientEmails, role \in {"signer", "cc"},
          code \in Codes :
          AddRecipient(e, "u1", Name1, email, role, 1, code, MaxRecipients)
    \/ \E e \in EnvIds : SendEnvelope(e, "u1")
    \/ \E e \in EnvIds, email \in Emails, code \in Codes \cup {ForeignCode} :
          VerifyRecipientAccess(e, email, code)
    \/ \E e \in EnvIds, r \in RcpIds : MarkRecipientViewed(e, r)
    \/ \E e \in EnvIds, r \in RcpIds : MarkRecipientSigned(e, r)
    \/ \E e \in EnvIds, r \in RcpIds : DeclineEnvelope(e, r, <<"x">>)

SpecAccess == Init /\ [][NextAccess]_vars

\* ------------------------------------------------- the clock moves on

\* datetime.utcnow() as the calls read it: the clock only moves forward.
MaxNow == 3

\* Recipients of the envelope whose calls are spread over time.
MaxClockRecipients == 1

Tick ==
    /\ now < MaxNow
    /\ now' = now + 1
    /\ UNCHANGED <<envelopes, recipients, documents, ret, procs, user_rows,
                reset_tokens, refresh_tokens>>

\* expiration_days a sender may choose.
ExpirationDays == {MIN_EXPIRATION_DAYS, DEFAULT_EXPIRATION_DAYS}

NextClock ==
    \/ Tick
    \/ \E e \in EnvIds :
          CreateEnvelope(e, "u1", Subject1, <<>>, <<"d1">>, "parallel",
                         DEFAULT_EXPIRATION_DAYS)
    \/ \E e \in EnvIds, d \in ExpirationDays :
          UpdateEnvelope(e, "u1", {}, {}, {}, {d})
    \/ \E e \in EnvIds, role \in {"signer", "cc"} :
          AddRecipient(e, "u1", Name1, Email1, role, 1, Code1,
                       MaxClockRecipients)
    \/ \E e \in EnvIds : SendEnvelope(e, "u1")
    \/ \E e \in EnvIds : VoidEnvelope(e, "u1", <<"x">>)
    \/ \E e \in EnvIds, r \in RcpIds : MarkRecipientViewed(e, r)
    \/ \E e \in EnvIds, r \in RcpIds : MarkRecipientSigned(e, r)
    \/ \E e \in EnvIds, r \in RcpIds : DeclineEnvelope(e, r, <<"x">>)

SpecClock == Init /\ [][NextClock]_vars

\* ------------------------------------------- documents and their envelopes

\* Envelopes created in a row on one document.
MaxUsage == 2

NextDocs ==
    \/ \E e \in EnvIds, u \in Users, m \in SigningOrder :
          /\ \A d \in DocIds : documents[d].in_use_by_envelopes < MaxUsage
          /\ CreateEnvelope(e, u, Subject1, <<>>, <<"d1">>, m,
                            DEFAULT_EXPIRATION_DAYS)
    \/ \E e \in EnvIds, u \in Users, role \in RecipientRole :
          AddRecipient(e, u, Name1, Email1, role, 1, Code1, MaxClockRecipients)
    \/ \E e \in EnvIds, u \in Users : SendEnvelope(e, u)
    \/ \E e \in EnvIds, u \in Users : VoidEnvelope(e, u, <<"x">>)
    \/ \E e \in EnvIds, r \in RcpIds : MarkRecipientSigned(e, r)
    \/ \E e \in EnvIds : DeleteEnvelopeRow(e)
    \/ \E e \in EnvIds, d \in DocIds : RemoveDocumentFromEnvelope(e, d)
    \/ \E d \in DocIds, u \in Users : DeleteDocument(d, u)

SpecDocs == Init /\ [][NextDocs]_vars

\* ------------------------------------------------------ logins over time

\* The clock in minutes, up to a little over one lockout.
MaxMinutes == 33

\* Time passes between two calls.
Pass(minutes) ==
    /\ now + minutes <= MaxMinutes
    /\ now' = now + minutes
    /\ UNCHANGED <<envelopes, recipients, documents, ret, procs, user_rows,
                reset_tokens, refresh_tokens>>

NextAuth ==
    \/ \E email \in {SenderEmail, Email1, EmailUpper, Email2},
          password \in Passwords : Login(email, password)
    \/ \E u \in Users : UnlockUser(u)
    \/ \E minutes \in {1, account_lockout_minutes - 1} : Pass(minutes)

SpecAuth == Init /\ [][NextAuth]_vars

\* --------------------------- viewing while signing or declining, by await

\* ---- mark_recipient_viewed, await by await

BeginView(p, e, r) ==
    /\ procs[p].pc = "idle"
    /\ procs' = [procs EXCEPT ![p].op = "MarkRecipientViewed",
                              ![p].pc = "view_get_recipient",
                              ![p].env = e, ![p].rcp = r]
    /\ UNCHANGED <<envelopes, recipients, documents, now, ret, user_rows,
                reset_tokens, refresh_tokens>>

\* recipient = await get_recipient_by_id(recipient_id), and the two checks.
ViewGetRecipient(p) ==
    LET e == procs[p].env
        r == procs[p].rcp
        found == MarkRecipientViewedResult(recipients, e, r)
    IN  /\ procs[p].pc = "view_get_recipient"
        /\ IF found = "ok"
           THEN procs' = [procs EXCEPT ![p].recipient = recipients[r],
                                       ![p].pc = "view_update_recipient"]
           ELSE Finish(p, found, {})
        /\ UNCHANGED <<envelopes, recipients, documents, now, ret, user_rows,
                reset_tokens, refresh_tokens>>

\* recipient.mark_viewed(); await update_recipient(recipient)
ViewUpdateRecipient(p) ==
    LET r == procs[p].rcp
        mine == MarkViewed(procs[p].recipient, now)
    IN  /\ procs[p].pc = "view_update_recipient"
        /\ recipients' = [recipients EXCEPT ![r] = UpdateRecipientRow(@, mine)]
        /\ procs' = [procs EXCEPT ![p].recipient = mine, ![p].pc = "done",
                                  ![p].result = "ok"]
        /\ UNCHANGED <<envelopes, documents, now, ret, user_rows,
                reset_tokens, refresh_tokens>>

\* ---- decline_envelope, await by await

BeginDecline(p, e, r, reason) ==
    /\ procs[p].pc = "idle"
    /\ procs' = [procs EXCEPT ![p].op = "DeclineEnvelope",
                              ![p].pc = "decline_get_recipient",
                              ![p].env = e, ![p].rcp = r,
                              ![p].reason = reason]
    /\ UNCHANGED <<envelopes, recipients, documents, now, ret, user_rows,
                reset_tokens, refresh_tokens>>

\* recipient = await get_recipient_by_id(recipient_id), and the two checks.
DeclineGetRecipient(p) ==
    LET e == procs[p].env
        r == procs[p].rcp
        found == MarkRecipientViewedResult(recipients, e, r)
    IN  /\ procs[p].pc = "decline_get_recipient"
        /\ IF found = "ok"
           THEN procs' = [procs EXCEPT ![p].recipient = recipients[r],
                                       ![p].pc = "decline_update_recipient"]
           ELSE Finish(p, found, {})
        /\ UNCHANGED <<envelopes, recipients, documents, now, ret, user_rows,
                reset_tokens, refresh_tokens>>

\* recipient.mark_declined(reason); await update_recipient(recipient)
DeclineUpdateRecipient(p) ==
    LET r == procs[p].rcp
        mine == MarkDeclined(procs[p].recipient, procs[p].reason)
    IN  /\ procs[p].pc = "decline_update_recipient"
        /\ IF IsBlank(procs[p].reason)
           THEN /\ Finish(p, "ValueError", {})
                /\ UNCHANGED recipients
           ELSE /\ recipients' = [recipients EXCEPT ![r] =
                                     UpdateRecipientRow(@, mine)]
                /\ procs' = [procs EXCEPT ![p].recipient = mine,
                                          ![p].pc = "decline_get_envelope"]
        /\ UNCHANGED <<envelopes, documents, now, ret, user_rows,
                reset_tokens, refresh_tokens>>

\* envelope = await get_envelope_by_id(envelope_id)
DeclineGetEnvelope(p) ==
    /\ procs[p].pc = "decline_get_envelope"
    /\ procs' = [procs EXCEPT ![p].envelope = envelopes[procs[p].env],
                              ![p].pc = "decline_update_envelope"]
    /\ UNCHANGED <<envelopes, recipients, documents, now, ret, user_rows,
                reset_tokens, refresh_tokens>>

\* envelope.decline(); await update_envelope(envelope)
DeclineUpdateEnvelope(p) ==
    LET e == procs[p].env
    IN  /\ procs[p].pc = "decline_update_envelope"
        /\ envelopes' = [envelopes EXCEPT ![e] =
               UpdateEnvelopeRow(@, EnvDecline(procs[p].envelope))]
        /\ Finish(p, "ok", {})
        /\ UNCHANGED <<recipients, documents, now, ret, user_rows,
                reset_tokens, refresh_tokens>>

NextView ==
    \/ \E p \in ProcIds, e \in EnvIds, r \in RcpIds : BeginView(p, e, r)
    \/ \E p \in ProcIds : ViewGetRecipient(p)
    \/ \E p \in ProcIds : ViewUpdateRecipient(p)
    \/ \E p \in ProcIds, e \in EnvIds, r \in RcpIds : BeginSign(p, e, r)
    \/ \E p \in ProcIds : SignGetRecipient(p)
    \/ \E p \in ProcIds : SignUpdateRecipient(p)
    \/ \E p \in ProcIds : SignCountPending(p)
    \/ \E p \in ProcIds : SignGetEnvelope(p)
    \/ \E p \in ProcIds : SignCompleteEnvelope(p)
    \/ \E p \in ProcIds : SignGetRecipients(p)
    \/ \E p \in ProcIds : SignSendNext(p)
    \/ \E p \in ProcIds, e \in EnvIds, r \in RcpIds, reason \in Reasons :
          BeginDecline(p, e, r, reason)
    \/ \E p \in ProcIds : DeclineGetRecipient(p)
    \/ \E p \in ProcIds : DeclineUpdateRecipient(p)
    \/ \E p \in ProcIds : DeclineGetEnvelope(p)
    \/ \E p \in ProcIds : DeclineUpdateEnvelope(p)

SpecView == InitConc /\ [][NextView]_vars

\* ----------------------- deleting a document while creating an envelope

\* ---- delete_document, await by await

BeginDelete(p, d, user_id) ==
    /\ procs[p].pc = "idle"
    /\ procs' = [procs EXCEPT ![p].op = "DeleteDocument",
                              ![p].pc = "delete_get_document",
                              ![p].doc = d, ![p].user = user_id]
    /\ UNCHANGED <<envelopes, recipients, documents, now, ret, user_rows,
                reset_tokens, refresh_tokens>>

\* document = await self.get_document(document_id, user_id)
DeleteGetDocument(p) ==
    LET d == procs[p].doc
        found == GetDocumentResult(documents, d, procs[p].user)
    IN  /\ procs[p].pc = "delete_get_document"
        /\ IF found = "ok"
           THEN procs' = [procs EXCEPT ![p].document = documents[d],
                                       ![p].pc = "delete_update_document"]
           ELSE Finish(p, found, {})
        /\ UNCHANGED <<envelopes, recipients, documents, now, ret, user_rows,
                reset_tokens, refresh_tokens>>

\* can_be_deleted(); soft_delete(); await update_document(document), which
\* assigns in_use_by_envelopes and deleted_at from the caller's copy.
DeleteUpdateDocument(p) ==
    LET d == procs[p].doc
        mine == SoftDelete(procs[p].document, now)
    IN  /\ procs[p].pc = "delete_update_document"
        /\ IF CanBeDeleted(procs[p].document)
           THEN /\ documents' = [documents EXCEPT
                       ![d].in_use_by_envelopes = mine.in_use_by_envelopes,
                       ![d].deleted_at = mine.deleted_at]
                /\ Finish(p, "ok", {TRUE})
           ELSE /\ Finish(p, "DocumentServiceError", {})
                /\ UNCHANGED documents
        /\ UNCHANGED <<envelopes, recipients, now, ret, user_rows,
                reset_tokens, refresh_tokens>>

\* ---- create_envelope, await by await

\* envelope_id = uuid4(): an id no row and no other request uses.
BeginCreate(p, e, sender_id) ==
    /\ procs[p].pc = "idle"
    /\ ~Exists(envelopes[e])
    /\ \A q \in ProcIds : ~(procs[q].op = "CreateEnvelope" /\ procs[q].env = e)
    /\ procs' = [procs EXCEPT ![p].op = "CreateEnvelope",
                              ![p].pc = "create_get_documents",
                              ![p].env = e, ![p].user = sender_id]
    /\ UNCHANGED <<envelopes, recipients, documents, now, ret, user_rows,
                reset_tokens, refresh_tokens>>

\* The validations, and get_document_by_id with its checks for the document
\* of the list.
CreateGetDocuments(p, subject, message, document_ids, expiration_days) ==
    LET found == CreateEnvelopeResult(documents, procs[p].user, subject,
                     message, expiration_days, document_ids)
    IN  /\ procs[p].pc = "create_get_documents"
        /\ IF found = "ok"
           THEN procs' = [procs EXCEPT ![p].snapshot = document_ids,
                                       ![p].pc = "create_persist_envelope"]
           ELSE Finish(p, found, {})
        /\ UNCHANGED <<envelopes, recipients, documents, now, ret, user_rows,
                reset_tokens, refresh_tokens>>

\* created_envelope = await create_envelope(envelope): the row, no link yet.
CreatePersistEnvelope(p, subject, message, signing_order, expiration_days) ==
    /\ procs[p].pc = "create_persist_envelope"
    /\ envelopes' = [envelopes EXCEPT ![procs[p].env] =
           NewEnvelope(procs[p].user, subject, message, signing_order,
                       expiration_days, <<>>)]
    /\ procs' = [procs EXCEPT ![p].pc = "create_add_documents"]
    /\ UNCHANGED <<recipients, documents, now, ret, user_rows,
                reset_tokens, refresh_tokens>>

\* await add_document_to_envelope(envelope_doc) for the document of the
\* list: the link, then _increment_document_usage on the row as it is.
CreateAddDocuments(p) ==
    LET document_ids == procs[p].snapshot
    IN  /\ procs[p].pc = "create_add_documents"
        /\ envelopes' = [envelopes EXCEPT
               ![procs[p].env].document_ids = @ \o document_ids]
        /\ documents' = IncrementDocumentUsage(documents, document_ids, 1)
        /\ Finish(p, "ok", {})
        /\ UNCHANGED <<recipients, now, ret, user_rows, reset_tokens, refresh_tokens>>

NextDocConc ==
    \/ \E p \in ProcIds, d \in DocIds, u \in Users : BeginDelete(p, d, u)
    \/ \E p \in ProcIds : DeleteGetDocument(p)
    \/ \E p \in ProcIds : DeleteUpdateDocument(p)
    \/ \E p \in ProcIds, e \in EnvIds, u \in Users : BeginCreate(p, e, u)
    \/ \E p \in ProcIds :
          CreateGetDocuments(p, Subject1, <<>>, <<"d1">>,
                             DEFAULT_EXPIRATION_DAYS)
    \/ \E p \in ProcIds, m \in SigningOrder :
          CreatePersistEnvelope(p, Subject1, <<>>, m, DEFAULT_EXPIRATION_DAYS)
    \/ \E p \in ProcIds : CreateAddDocuments(p)

SpecDocConc == Init /\ [][NextDocConc]_vars

\* ------------------------------------ inputs that the service may refuse

\* ---- create_envelope with a recipients list

\* recipient_data: name, email, role and signing_order; a role that is no
\* RecipientRole makes RecipientRole(...) raise ValueError, which
\* create_envelope wraps into EnvelopeServiceError.
RecipientData ==
    {[name |-> n, email |-> Email1, role |-> role, signing_order |-> o] :
        n \in {Name1, <<>>}, role \in {"signer", "witness"}, o \in {0, 1}}

RecipientLists ==
    {<<>>} \cup {<<a>> : a \in RecipientData}
           \cup {<<a, b>> : a \in {x \in RecipientData : x.name = Name1},
                            b \in RecipientData}

\* for recipient_data in recipients: await self.add_recipient(...); the rows
\* written before the entry that raises stay written.
RECURSIVE AddRecipients(_, _, _, _, _, _, _)
AddRecipients(envs, rs, e, sender_id, recipient_list, code, i) ==
    IF i > Len(recipient_list) THEN [rs |-> rs, result |-> "ok"]
    ELSE LET d == recipient_list[i]
             added == AddRecipientResult(envs, rs, e, sender_id, d.name,
                                         d.email, d.signing_order)
         IN  IF d.role \notin RecipientRole
             THEN [rs |-> rs, result |-> "EnvelopeServiceError"]
             ELSE IF added # "ok" THEN [rs |-> rs, result |-> added]
             ELSE AddRecipients(envs,
                      [rs EXCEPT ![NewRecipientId(rs)] =
                          NewRecipient(e, d.name, d.email, d.role,
                                       d.signing_order, code)],
                      e, sender_id, recipient_list, code, i + 1)

\* The checks raise before anything is written (no step); after them the
\* envelope, its links and the counters are written, then the recipients one
\* by one, and the call returns or raises what add_recipient raised.
CreateEnvelopeWithRecipients(e, sender_id, subject, message, document_ids, signing_order, expiration_days, recipient_list, code) ==
    LET envs == [envelopes EXCEPT ![e] =
                    NewEnvelope(sender_id, subject, message, signing_order,
                                expiration_days, document_ids)]
        added == AddRecipients(envs, recipients, e, sender_id, recipient_list,
                               code, 1)
    IN  /\ ~Exists(envelopes[e])
        /\ CreateEnvelopeResult(documents, sender_id, subject, message,
                                expiration_days, document_ids) = "ok"
        /\ Len(recipient_list) <= Cardinality(FreshRecipientIds(recipients))
        /\ envelopes' = envs
        /\ documents' = IncrementDocumentUsage(documents, document_ids, 1)
        /\ recipients' = added.rs
        /\ ret' = {added.result}
        /\ UNCHANGED <<now, procs, user_rows, reset_tokens, refresh_tokens>>

NextInputs ==
    \/ \E e \in EnvIds, u \in Users, m \in SigningOrder,
          recipient_list \in RecipientLists :
          CreateEnvelopeWithRecipients(e, u, Subject1, <<>>, <<"d1">>, m,
              DEFAULT_EXPIRATION_DAYS, recipient_list, Code1)
    \/ \E e \in EnvIds, u \in Users, role \in RecipientRole,
          o \in 0..MaxOrder :
          AddRecipient(e, u, Name1, Email1, role, o, Code1, MaxRecipients)
    \/ \E e \in EnvIds, u \in Users, r \in RcpIds, o \in 0..MaxOrder :
          UpdateRecipientSigningOrder(e, u,
              <<[recipient_id |-> r, signing_order |-> o]>>)
    \/ \E e \in EnvIds, u \in Users : SendEnvelope(e, u)
    \/ \E e \in EnvIds, r \in RcpIds : MarkRecipientSigned(e, r)

SpecInputs == Init /\ [][NextInputs]_vars

\* ------------------------------------------------------- two envelopes

TwoEnvIds == {1, 2}

InitTwo ==
    /\ envelopes = [e \in TwoEnvIds |-> NoEnvelope]
    /\ recipients = [r \in RcpIds |-> NoRecipient]
    /\ documents = [d \in DocIds |->
                       [user_id |-> "u1", status |-> "ready",
                        in_use_by_envelopes |-> 0, deleted_at |-> 0]]
    /\ now = 1
    /\ ret = NothingMore
    /\ procs = Idle
    /\ user_rows = RegisteredUsers
    /\ reset_tokens = [k \in TokenIds |-> NoResetToken]
    /\ refresh_tokens = [k \in TokenIds |-> NoRefreshToken]

NextTwo ==
    \/ \E e \in TwoEnvIds, m \in SigningOrder :
          CreateEnvelope(e, "u1", Subject1, <<>>, <<"d1">>, m,
                         DEFAULT_EXPIRATION_DAYS)
    \/ \E e \in TwoEnvIds, m \in SigningOrder :
          UpdateEnvelope(e, "u1", {}, {}, {m}, {})
    \/ \E e \in TwoEnvIds, o \in Orders :
          AddRecipient(e, "u1", Name1, Email1, "signer", o, Code1,
                       MaxRecipients)
    \/ \E e \in TwoEnvIds, r \in RcpIds, o \in Orders :
          UpdateRecipientSigningOrder(e, "u1",
              <<[recipient_id |-> r, signing_order |-> o]>>)
    \/ \E e \in TwoEnvIds : SendEnvelope(e, "u1")
    \/ \E e \in TwoEnvIds : VoidEnvelope(e, "u1", <<"x">>)
    \/ \E e \in TwoEnvIds, r \in RcpIds : MarkRecipientViewed(e, r)
    \/ \E e \in TwoEnvIds, r \in RcpIds : MarkRecipientSigned(e, r)
    \/ \E e \in TwoEnvIds, r \in RcpIds : DeclineEnvelope(e, r, <<"x">>)

SpecTwo == InitTwo /\ [][NextTwo]_vars

\* ------------------------------------------- password resets and sessions

NextTokens ==
    \/ \E u \in Users, password \in Passwords \cup NewPasswords :
          Login(user_rows[u].email, password)
    \/ \E u \in Users : RequestPasswordReset(user_rows[u].email)
    \/ \E token \in TokenIds, new_password \in NewPasswords :
          ResetPassword(token, new_password)
    \/ \E token \in TokenIds : RefreshAccessToken(token)

SpecTokens == Init /\ [][NextTokens]_vars

\* ============================================================== claims

TerminalStatus == {"completed", "declined", "voided", "expired"}

\* The recipients of envelope e in the recipient table rs.
Of(rs, e) == {r \in RcpIds : rs[r].status # "none" /\ rs[r].envelope_id = e}

\* No signer of envelope e is pending, sent or viewed.
NoOpenSigner(rs, e) ==
    \A r \in Of(rs, e) :
        rs[r].role = "signer" => rs[r].status \in {"signed", "declined"}

\* C1: every mark_recipient_signed that returns: it returns
\* envelope_completed = TRUE exactly when the envelope is then left without a
\* signer that is pending, sent or viewed, and then the envelope is completed
\* with completed_at set; when it returns FALSE the envelope's status is the
\* one it had before the call.
C1_CompletionIffNoOpenSigner ==
    [][\A e \in EnvIds, r \in RcpIds :
        MarkRecipientSigned(e, r) =>
            /\ ret' = {NoOpenSigner(recipients', e)}
            /\ NoOpenSigner(recipients', e) =>
                  /\ envelopes'[e].status = "completed"
                  /\ envelopes'[e].completed_at # 0
            /\ ~NoOpenSigner(recipients', e) =>
                  envelopes'[e].status = envelopes[e].status]_vars

\* A signer signed last and completed a sent envelope although a recipient
\* that is no signer is still pending.
C1_Witness ==
    \E e \in EnvIds :
        /\ ret = {TRUE}
        /\ envelopes[e].status = "completed"
        /\ envelopes[e].sent_at # 0
        /\ \E r \in Of(recipients, e) :
              recipients[r].role # "signer" /\ recipients[r].status = "pending"

\* C2: once an envelope is completed, declined, voided or expired, no
\* operation changes its status.
C2_TerminalEnvelopeStatusFinal ==
    [][\A e \in EnvIds :
        envelopes[e].status \in TerminalStatus =>
            envelopes'[e].status = envelopes[e].status]_vars

\* C3: once an envelope is completed, declined, voided or expired, no
\* operation changes the status of any of its recipients.
C3_TerminalEnvelopeFreezesRecipients ==
    [][\A e \in EnvIds :
        envelopes[e].status \in TerminalStatus =>
            \A r \in Of(recipients, e) :
                recipients'[r].status = recipients[r].status]_vars

\* C6: send_envelope on a sequential envelope marks sent exactly the signers
\* whose signing_order is the least signing_order of the envelope's signers,
\* and every other recipient keeps its status.
C6_SequentialSendFirstGroupOnly ==
    [][\A e \in EnvIds, u \in Users :
        (SendEnvelope(e, u) /\ envelopes[e].signing_order = "sequential") =>
            LET signers == {r \in Of(recipients, e) :
                               recipients[r].role = "signer"}
                first == {r \in signers : \A q \in signers :
                             recipients[r].signing_order
                                 <= recipients[q].signing_order}
            IN  \A r \in RcpIds :
                    IF r \in first
                    THEN recipients'[r].status = "sent"
                    ELSE recipients'[r].status = recipients[r].status]_vars

\* A sequential envelope was sent: a signer is sent while another recipient
\* (a signer of a higher order, or a cc or approver) is still pending.
C6_Witness ==
    \E e \in EnvIds :
        /\ envelopes[e].status = "sent"
        /\ envelopes[e].signing_order = "sequential"
        /\ \E r, q \in Of(recipients, e) :
              /\ recipients[r].role = "signer"
              /\ recipients[r].status = "sent"
              /\ recipients[q].status = "pending"
              /\ \/ recipients[q].role # "signer"
                 \/ recipients[q].signing_order > recipients[r].signing_order

\* C7: send_envelope on a parallel envelope leaves every recipient of the
\* envelope with status sent, whatever its role and signing_order.
C7_ParallelSendAll ==
    [][\A e \in EnvIds, u \in Users :
        (SendEnvelope(e, u) /\ envelopes[e].signing_order = "parallel") =>
            \A r \in Of(recipients, e) : recipients'[r].status = "sent"]_vars

\* A parallel envelope was sent: a cc or approver of order 2 is sent.
C7_Witness ==
    \E e \in EnvIds :
        /\ envelopes[e].status = "sent"
        /\ envelopes[e].signing_order = "parallel"
        /\ \E r \in Of(recipients, e) :
              /\ recipients[r].role # "signer"
              /\ recipients[r].signing_order > 1
              /\ recipients[r].status = "sent"

\* C10: decline_envelope returns only for a reason that has a character
\* other than whitespace; it then leaves that recipient declined with the
\* reason recorded and the envelope declined, and every other recipient with
\* the status it had. A call with an empty or blank reason is no step: it
\* changes nothing.
C10_DeclineEffect ==
    [][\A e \in EnvIds, r \in RcpIds, reason \in Reasons :
        DeclineEnvelope(e, r, reason) =>
            /\ \E i \in 1..Len(reason) : reason[i] # " "
            /\ recipients'[r].status = "declined"
            /\ recipients'[r].decline_reason = reason
            /\ envelopes'[e].status = "declined"
            /\ \A q \in RcpIds \ {r} :
                  recipients'[q].status = recipients[q].status]_vars

\* A recipient declined a sent envelope; another recipient is still sent.
C10_Witness ==
    \E e \in EnvIds :
        /\ envelopes[e].status = "declined"
        /\ envelopes[e].sent_at # 0
        /\ \E r, q \in Of(recipients, e) :
              /\ recipients[r].status = "declined"
              /\ recipients[r].decline_reason = <<"x">>
              /\ recipients[q].status = "sent"

\* C4: a sent sequential envelope whose notified signers all eventually sign
\* is eventually completed, with every signer notified on the way.
C4_SequentialEventuallyCompleted ==
    \A e \in EnvIds :
        (envelopes[e].status = "sent" /\ envelopes[e].signing_order = "sequential")
            ~> /\ envelopes[e].status = "completed"
               /\ \A r \in Of(recipients, e) :
                     recipients[r].role = "signer" =>
                         recipients[r].status # "pending"

\* C5: in a sequential envelope no signer becomes sent while a signer of a
\* lower signing_order is pending, sent or viewed.
C5_OneOrderGroupAtATime ==
    [][\A e \in EnvIds : \A r \in Of(recipients, e) :
        ( /\ envelopes[e].signing_order = "sequential"
          /\ recipients[r].role = "signer"
          /\ recipients[r].status # "sent"
          /\ recipients'[r].status = "sent" ) =>
            ~\E q \in Of(recipients, e) :
                /\ recipients[q].role = "signer"
                /\ recipients[q].signing_order < recipients[r].signing_order
                /\ recipients'[q].status \in {"pending", "sent", "viewed"}]_vars

\* C8: when two concurrent mark_recipient_signed calls sign the last two
\* unsigned signers of an envelope, the envelope ends completed and exactly
\* one of the two calls returns envelope_completed = TRUE.
C8_CompletedExactlyOnce ==
    \A p, q \in ProcIds :
        ( /\ p # q
          /\ procs[p].op = "MarkRecipientSigned" /\ procs[p].pc = "done"
          /\ procs[q].op = "MarkRecipientSigned" /\ procs[q].pc = "done"
          /\ procs[p].result = "ok" /\ procs[q].result = "ok"
          /\ procs[p].rcp # procs[q].rcp
          /\ procs[p].env = procs[q].env
          /\ NoOpenSigner(recipients, procs[p].env) ) =>
            /\ envelopes[procs[p].env].status = "completed"
            /\ procs[p].ret # procs[q].ret

\* C9: a void_envelope that runs beside a completing mark_recipient_signed
\* never writes over the completion the sign has persisted: a completed
\* envelope stays completed, with its completed_at.
C9_VoidNeverOverwritesCompletion ==
    [][\A e \in EnvIds :
        envelopes[e].status = "completed" =>
            /\ envelopes'[e].status = "completed"
            /\ envelopes'[e].completed_at = envelopes[e].completed_at]_vars

\* C11: void_envelope by the sender with a reason that is not blank succeeds
\* on a sent envelope and leaves it voided with voided_at and void_reason
\* recorded; on a draft, completed, voided or expired envelope, or with an
\* empty or blank reason, it raises (and a call that raises writes nothing).
C11_VoidRules ==
    /\ [](\A e \in EnvIds :
            Exists(envelopes[e]) =>
              LET VoidAt(s, reason) ==
                      VoidEnvelopeResult([envelopes EXCEPT ![e].status = s], e,
                                         envelopes[e].sender_id, reason)
              IN  /\ VoidAt("sent", <<"x">>) = "ok"
                  /\ \A s \in {"draft", "completed", "voided", "expired"} :
                        VoidAt(s, <<"x">>) \notin {"ok"}
                  /\ \A s \in EnvelopeStatus, reason \in {<<>>, <<" ">>} :
                        VoidAt(s, reason) \notin {"ok"})
    /\ [][\A e \in EnvIds, u \in Users, reason \in Reasons :
            VoidEnvelope(e, u, reason) =>
                /\ u = envelopes[e].sender_id
                /\ envelopes[e].status
                       \notin {"draft", "completed", "voided", "expired"}
                /\ \E i \in 1..Len(reason) : reason[i] # " "
                /\ envelopes'[e].status = "voided"
                /\ envelopes'[e].voided_at = now
                /\ envelopes'[e].void_reason = reason]_vars

\* The sender voided a sent envelope: reason and time are recorded.
C11_Witness ==
    \E e \in EnvIds :
        /\ envelopes[e].status = "voided"
        /\ envelopes[e].sent_at # 0
        /\ envelopes[e].voided_at # 0
        /\ envelopes[e].void_reason = <<"x">>

\* C12: mark_recipient_signed raises (and so writes nothing) for a recipient
\* that is no signer or is already signed or declined; it returns only for a
\* signer that is neither, and in every reachable state a signed recipient is
\* a signer.
C12_OnlyOpenSignersSign ==
    /\ [](\A r \in RcpIds :
            recipients[r].status = "signed" => recipients[r].role = "signer")
    /\ [](\A e \in EnvIds, r \in RcpIds :
            ( /\ Exists(recipients[r])
              /\ \/ recipients[r].role # "signer"
                 \/ recipients[r].status \in {"signed", "declined"} ) =>
                MarkRecipientSignedResult(recipients, e, r) \notin {"ok"})
    /\ [][\A e \in EnvIds, r \in RcpIds :
            MarkRecipientSigned(e, r) =>
                /\ recipients[r].role = "signer"
                /\ recipients[r].status \notin {"signed", "declined"}
                /\ recipients'[r].status = "signed"]_vars

\* A signer of a sent parallel envelope has signed while a cc or approver of
\* the envelope, notified as well, has not.
C12_Witness ==
    \E e \in EnvIds : \E r, q \in Of(recipients, e) :
        /\ recipients[r].status = "signed"
        /\ recipients[q].role # "signer"
        /\ recipients[q].status \in {"sent", "viewed"}

\* C13: send_envelope by the sender returns exactly when the envelope is a
\* draft with at least one recipient and at least one signer, and then leaves
\* it sent with sent_at set; in every other case it raises
\* EnvelopeValidationError (and a call that raises writes nothing).
C13_SendPreconditions ==
    /\ [](\A e \in EnvIds : \A s \in EnvelopeStatus :
            Exists(envelopes[e]) =>
              LET sendable ==
                      /\ s = "draft"
                      /\ Of(recipients, e) # {}
                      /\ \E r \in Of(recipients, e) :
                            recipients[r].role = "signer"
              IN  SendEnvelopeResult([envelopes EXCEPT ![e].status = s],
                                     recipients, e, envelopes[e].sender_id)
                    = IF sendable THEN "ok" ELSE "EnvelopeValidationError")
    /\ [][\A e \in EnvIds, u \in Users :
            SendEnvelope(e, u) =>
                /\ envelopes[e].status = "draft"
                /\ \E r \in Of(recipients, e) : recipients[r].role = "signer"
                /\ envelopes'[e].status = "sent"
                /\ envelopes'[e].sent_at = now]_vars

\* A draft with a signer was sent.
C13_Witness ==
    \E e \in EnvIds :
        /\ envelopes[e].status = "sent"
        /\ envelopes[e].sent_at # 0
        /\ \E r \in Of(recipients, e) : recipients[r].role = "signer"

\* C14: update_envelope, send_envelope, void_envelope, add_recipient and
\* update_recipient_signing_order called for an existing envelope by a user
\* who is not its sender raise EnvelopePermissionError, whatever the
\* envelope's status (and a call that raises writes nothing): each of them
\* returns only to the sender.
C14_OnlySenderMayChange ==
    /\ [](\A e \in EnvIds, u \in Users, s \in EnvelopeStatus :
            (Exists(envelopes[e]) /\ u # envelopes[e].sender_id) =>
              LET envs == [envelopes EXCEPT ![e].status = s]
              IN  /\ UpdateEnvelopeResult(envs, e, u, {Subject1}, {}, {})
                        = "EnvelopePermissionError"
                  /\ SendEnvelopeResult(envs, recipients, e, u)
                        = "EnvelopePermissionError"
                  /\ VoidEnvelopeResult(envs, e, u, <<"x">>)
                        = "EnvelopePermissionError"
                  /\ AddRecipientResult(envs, recipients, e, u, Name1, Email1, 1)
                        = "EnvelopePermissionError"
                  /\ UpdateRecipientSigningOrderResult(envs, e, u)
                        = "EnvelopePermissionError")
    /\ [][\A e \in EnvIds, u \in Users :
            ( \/ \E m \in SigningOrder : UpdateEnvelope(e, u, {}, {}, {m}, {})
              \/ SendEnvelope(e, u)
              \/ \E reason \in Reasons : VoidEnvelope(e, u, reason)
              \/ \E role \in RecipientRole, o \in Orders :
                    AddRecipient(e, u, Name1, Email1, role, o, Code1,
                                 MaxRecipients)
              \/ \E r \in RcpIds, o \in Orders :
                    UpdateRecipientSigningOrder(e, u,
                        <<[recipient_id |-> r, signing_order |-> o]>>) ) =>
                u = envelopes[e].sender_id]_vars

\* A sent envelope with recipients, and a user who is not its sender.
C14_Witness ==
    \E e \in EnvIds, u \in Users :
        /\ envelopes[e].status = "sent"
        /\ u # envelopes[e].sender_id
        /\ Of(recipients, e) # {}

\* The callers get_envelope is meant to serve: the sender, and an account
\* whose email is the email of a recipient of the envelope.
MayRead(e, u) ==
    \/ u = envelopes[e].sender_id
    \/ /\ u \in DOMAIN Accounts
       /\ \E r \in Of(recipients, e) : recipients[r].email = Accounts[u]

\* C15: get_envelope on an existing envelope returns exactly when the caller
\* is the sender or the caller's account email is the email of one of the
\* envelope's recipients; for every other caller it raises
\* EnvelopePermissionError.
C15_GetEnvelopeAuthorization ==
    \A e \in EnvIds, u \in Callers, flag \in BOOLEAN :
        Exists(envelopes[e]) =>
            GetEnvelope(envelopes, recipients, e, u, flag).result
                = IF MayRead(e, u) THEN "ok" ELSE "EnvelopePermissionError"

C17_RecipientFacingResultsCarryNoCode ==
    [][/\ \A e \in EnvIds, r \in RcpIds :
            ( \/ MarkRecipientViewed(e, r)
              \/ MarkRecipientSigned(e, r)
              \/ DeclineEnvelope(e, r, <<"x">>) ) =>
                RecipientToDomain(recipients'[r]).access_code = "none"
       /\ \A e \in EnvIds, email \in Emails, code \in Codes :
            VerifyRecipientAccess(e, email, code) =>
                \A got \in ret' : got.recipient.access_code = "none"]_vars

\* C18: the persisted recipient row holds the hash of the access code and
\* not the plaintext, in every reachable state.
C18_OnlyHashPersisted ==
    \A r \in RcpIds :
        Exists(recipients[r]) =>
            /\ recipients[r].access_code = "none"
            /\ recipients[r].access_code_hash # <<>>

\* C19: for every recipient r that add_recipient created with code c,
\* verify_recipient_access(r's envelope, r's email, c) returns r, and with
\* any other code it returns None, whatever other recipients the envelope
\* has.
C19_AddThenVerifyRoundTrip ==
    \A r \in RcpIds :
        Exists(recipients[r]) =>
            LET e == recipients[r].envelope_id
                email == recipients[r].email
                c == recipients[r].access_code
            IN  /\ VerifyRecipientAccessResult(recipients, e, email, c) = "found"
                /\ VerifiedRecipient(recipients, e, email, c) = r
                /\ \A other \in (Codes \cup {ForeignCode}) \ {c} :
                      VerifyRecipientAccessResult(recipients, e, email, other)
                          = "None"

\* C20: verify_recipient_access raises for no envelope id, email and code,
\* whatever recipients the envelope has: it returns a recipient or None.
C20_VerifyNeverRaises ==
    \A e \in EnvIds, email \in Emails, code \in Codes \cup {ForeignCode} :
        VerifyRecipientAccessResult(recipients, e, email, code)
            \in {"found", "None"}

\* C21: mark_recipient_viewed on a recipient that has been viewed before
\* leaves viewed_at at the time of the first call, however late the call
\* comes; a pending, sent or viewed recipient is viewed after it, and a
\* signed or declined recipient keeps its status. Two calls in a row, at any
\* two times, leave what the first call left.
C21_ViewedOnceSticky ==
    /\ [](\A r \in RcpIds : \A t1, t2 \in 1..MaxNow :
            (Exists(recipients[r]) /\ t1 <= t2) =>
                LET first == MarkViewed(recipients[r], t1)
                IN  /\ MarkViewed(first, t2) = first
                    /\ first.viewed_at # 0)
    /\ [][\A e \in EnvIds, r \in RcpIds :
            MarkRecipientViewed(e, r) =>
                /\ recipients[r].viewed_at # 0 =>
                      recipients'[r].viewed_at = recipients[r].viewed_at
                /\ recipients[r].viewed_at = 0 => recipients'[r].viewed_at = now
                /\ recipients[r].status \in {"pending", "sent", "viewed"} =>
                      recipients'[r].status = "viewed"
                /\ recipients[r].status \in {"signed", "declined"} =>
                      recipients'[r].status = recipients[r].status]_vars

\* A recipient viewed the envelope at an earlier time and is still viewed:
\* a call now is a second call, at a later time than the first.
C21_Witness ==
    \E r \in RcpIds :
        /\ recipients[r].status = "viewed"
        /\ recipients[r].viewed_at # 0
        /\ recipients[r].viewed_at < now

\* C22: delete_document by the owner of a document that is not deleted
\* raises DocumentServiceError (and so writes nothing) when the document's
\* in_use_by_envelopes is greater than 0 and succeeds when it is 0; a
\* successful call leaves the document soft-deleted, and no call deletes a
\* document whose counter is greater than 0.
C22_DeleteOnlyWhenUnused ==
    /\ [](\A d \in DocIds, n \in 0..MaxUsage :
            (Exists(documents[d]) /\ documents[d].deleted_at = 0) =>
                DeleteDocumentResult(
                    [documents EXCEPT ![d].in_use_by_envelopes = n], d,
                    documents[d].user_id)
                  = IF n > 0 THEN "DocumentServiceError" ELSE "ok")
    /\ [][\A d \in DocIds, u \in Users :
            DeleteDocument(d, u) =>
                /\ documents[d].in_use_by_envelopes = 0
                /\ u = documents[d].user_id
                /\ documents[d].deleted_at = 0
                /\ documents'[d].deleted_at # 0]_vars
    /\ [][\A d \in DocIds :
            documents[d].in_use_by_envelopes > 0 =>
                documents'[d].deleted_at = documents[d].deleted_at]_vars

\* A document was attached to an envelope, released by it, and then deleted
\* by its owner.
C22_Witness ==
    \E d \in DocIds, e \in EnvIds :
        /\ documents[d].deleted_at # 0
        /\ documents[d].in_use_by_envelopes = 0
        /\ Exists(envelopes[e])
        /\ ~HasDocument(envelopes[e], d)

\* The envelopes that exist and reference document d.
ReferencingEnvelopes(d) ==
    {e \in EnvIds : Exists(envelopes[e]) /\ HasDocument(envelopes[e], d)}

\* C23: in every reachable state a document's in_use_by_envelopes is the
\* number of existing envelopes that reference it, so a document that no
\* existing envelope references can be deleted by its owner.
C23_CounterIsReferenceCount ==
    \A d \in DocIds :
        /\ documents[d].in_use_by_envelopes
              = Cardinality(ReferencingEnvelopes(d))
        /\ (ReferencingEnvelopes(d) = {} /\ documents[d].deleted_at = 0) =>
              DeleteDocumentResult(documents, d, documents[d].user_id) = "ok"

\* The account of user u is locked and the lock has not expired.
LockInForce(rows, u, t) == rows[u].account_locked /\ t < rows[u].locked_until

\* The login that finds user u's row, with a password.
LoginOf(u, password) == Login(user_rows[u].email, password)

\* C24: every login with a wrong password on an account that is not locked
\* adds one to failed_login_attempts, a login that succeeds sets it to 0, and
\* the login that brings it to max_login_attempts (5) locks the account for
\* account_lockout_minutes; a locked account has at least 5 failed attempts.
\* While the lock is in force every login on the account raises
\* AccountLockedError, with the right password as with a wrong one, and the
\* lock stays in force until it expires or unlock_account removes it.
C24_LockedAfterMaxAttempts ==
    /\ [](\A u \in Users :
            /\ user_rows[u].account_locked =>
                  /\ user_rows[u].failed_login_attempts >= max_login_attempts
                  /\ user_rows[u].locked_until # 0
            /\ LockInForce(user_rows, u, now) =>
                  \A password \in Passwords :
                      LoginResult(user_rows, user_rows[u].email, password, now)
                          = "AccountLockedError")
    /\ [][\A u \in Users :
            /\ (LoginOf(u, "wrong") /\ ~LockInForce(user_rows, u, now)) =>
                  /\ ret' = {"InvalidCredentialsError"}
                  /\ user_rows'[u].failed_login_attempts
                        = user_rows[u].failed_login_attempts + 1
                  /\ user_rows'[u].failed_login_attempts >= max_login_attempts
                        => /\ user_rows'[u].account_locked
                           /\ user_rows'[u].locked_until
                                 = now + account_lockout_minutes
            /\ (LoginOf(u, "right") /\ ret' = {"ok"}) =>
                  user_rows'[u].failed_login_attempts = 0
            /\ ( /\ LockInForce(user_rows, u, now)
                 /\ ~UnlockUser(u)
                 /\ now' < user_rows[u].locked_until ) =>
                    LockInForce(user_rows', u, now')]_vars

\* The fifth wrong password in a row locked the verified account; later,
\* before the lock expired, a further login was refused.
C24_Witness ==
    /\ user_rows["u1"].failed_login_attempts = max_login_attempts
    /\ LockInForce(user_rows, "u1", now)
    /\ now > 1
    /\ ret = {"AccountLockedError"}

\* C25: a recipient that is signed or declined keeps that status on every
\* step: no send_envelope, mark_recipient_viewed, mark_recipient_signed or
\* decline_envelope changes it.
C25_SignedAndDeclinedAreFinal ==
    [][\A r \in RcpIds :
        recipients[r].status \in {"signed", "declined"} =>
            recipients'[r].status = recipients[r].status]_vars

\* C26: an envelope becomes completed, declined or voided only on a step
\* from sent (or from the reserved statuses delivered and signed), and a
\* draft changes status only to sent, by send_envelope.
C26_DraftLeavesOnlyBySend ==
    [][\A e \in EnvIds :
        envelopes'[e].status # envelopes[e].status =>
            /\ envelopes'[e].status \in {"completed", "declined", "voided"} =>
                  envelopes[e].status \in {"sent", "delivered", "signed"}
            /\ envelopes[e].status = "draft" =>
                  /\ envelopes'[e].status = "sent"
                  /\ \E u \in Users : SendEnvelope(e, u)]_vars

\* C27: a mark_recipient_signed that returns envelope_completed = FALSE
\* leaves the envelope's status as it was and the signer signed; on a
\* sequential envelope every pending signer whose signing_order is the
\* signer's plus one becomes sent, and every other recipient (on a parallel
\* envelope: every recipient but the signer) keeps its status.
C27_AdvanceToNextOrderOnly ==
    [][\A e \in EnvIds, r \in RcpIds :
        (MarkRecipientSigned(e, r) /\ ret' = {FALSE}) =>
            /\ envelopes'[e].status = envelopes[e].status
            /\ recipients'[r].status = "signed"
            /\ \A q \in RcpIds \ {r} :
                  IF /\ envelopes[e].signing_order = "sequential"
                     /\ q \in Of(recipients, e)
                     /\ recipients[q].role = "signer"
                     /\ recipients[q].signing_order
                           = recipients[r].signing_order + 1
                     /\ recipients[q].status = "pending"
                  THEN recipients'[q].status = "sent"
                  ELSE recipients'[q].status = recipients[q].status]_vars

\* On a sent sequential envelope the signer of order 1 has signed without
\* completing the envelope, and the signer of order 2 has been sent.
C27_Witness ==
    \E e \in EnvIds : \E r, q \in Of(recipients, e) :
        /\ ret = {FALSE}
        /\ envelopes[e].status = "sent"
        /\ envelopes[e].signing_order = "sequential"
        /\ recipients[r].status = "signed"
        /\ recipients[r].signing_order = 1
        /\ recipients[q].role = "signer"
        /\ recipients[q].signing_order = 2
        /\ recipients[q].status = "sent"

\* C28: in every reachable state a completed envelope has no signer that is
\* pending, sent or viewed; and the count of pending recipients that decides
\* completion is the same whatever the statuses of the envelope's cc and
\* approver recipients are.
C28_CompletedHasNoOpenSigner ==
    \A e \in EnvIds :
        /\ envelopes[e].status = "completed" => NoOpenSigner(recipients, e)
        /\ \A s \in RecipientStatus :
              CountPendingRecipients(
                  [r \in RcpIds |->
                      IF Exists(recipients[r]) /\ recipients[r].role # "signer"
                      THEN [recipients[r] EXCEPT !.status = s]
                      ELSE recipients[r]], e)
                = CountPendingRecipients(recipients, e)

\* A sent envelope is completed, its signers signed, while a cc or approver
\* of it has only been sent or has viewed it.
C28_Witness ==
    \E e \in EnvIds : \E r, q \in Of(recipients, e) :
        /\ envelopes[e].status = "completed"
        /\ envelopes[e].sent_at # 0
        /\ recipients[r].role = "signer"
        /\ recipients[r].status = "signed"
        /\ recipients[q].role # "signer"
        /\ recipients[q].status \in {"sent", "viewed"}

\* C29: an envelope that has not been sent has no expires_at; send_envelope
\* sets expires_at to sent_at plus the envelope's expiration_days; and once
\* set, expires_at is changed by no operation.
C29_ExpiresAtSetOnceAtSend ==
    /\ [](\A e \in EnvIds :
            /\ envelopes[e].sent_at = 0 => envelopes[e].expires_at = 0
            /\ envelopes[e].sent_at # 0 =>
                  envelopes[e].expires_at
                      = envelopes[e].sent_at + envelopes[e].expiration_days)
    /\ [][\A e \in EnvIds :
            /\ (\E u \in Users : SendEnvelope(e, u)) =>
                  /\ envelopes[e].expires_at = 0
                  /\ envelopes'[e].sent_at = now
                  /\ envelopes'[e].expires_at
                        = now + envelopes[e].expiration_days
            /\ envelopes[e].expires_at # 0 =>
                  envelopes'[e].expires_at = envelopes[e].expires_at]_vars

\* An envelope whose expiration_days had been changed to the minimum was sent
\* after the clock had moved, and has since been completed or voided at a
\* later time: expires_at is still sent_at plus that one day.
C29_Witness ==
    \E e \in EnvIds :
        /\ envelopes[e].status \in {"completed", "voided"}
        /\ envelopes[e].sent_at > 1
        /\ now > envelopes[e].sent_at
        /\ envelopes[e].expiration_days = MIN_EXPIRATION_DAYS
        /\ envelopes[e].expires_at
              = envelopes[e].sent_at + MIN_EXPIRATION_DAYS

\* C30: in every reachable state at most one of an envelope's completed_at,
\* voided_at and expired_at is set.
C30_AtMostOneTerminalTimestamp ==
    \A e \in EnvIds :
        Cardinality({f \in {"completed_at", "voided_at", "expired_at"} :
                        envelopes[e][f] # 0}) <= 1

\* C31: update_envelope, add_recipient and update_recipient_signing_order
\* called by the sender for an envelope that is no longer a draft raise
\* EnvelopeValidationError (and so write nothing); and no step changes the
\* subject, message, signing order mode, expiration_days or document list of
\* an envelope that is no longer a draft, nor its set of recipients, nor the
\* signing_order of any of them.
C31_FrozenAfterDraft ==
    /\ [](\A e \in EnvIds, s \in EnvelopeStatus \ {"draft"} :
            Exists(envelopes[e]) =>
              LET envs == [envelopes EXCEPT ![e].status = s]
                  u == envelopes[e].sender_id
              IN  /\ UpdateEnvelopeResult(envs, e, u, {Subject1}, {}, {})
                        = "EnvelopeValidationError"
                  /\ AddRecipientResult(envs, recipients, e, u, Name1, Email1, 1)
                        = "EnvelopeValidationError"
                  /\ UpdateRecipientSigningOrderResult(envs, e, u)
                        = "EnvelopeValidationError")
    /\ [][\A e \in EnvIds :
            (Exists(envelopes[e]) /\ envelopes[e].status # "draft") =>
                /\ \A f \in {"subject", "message", "signing_order",
                             "expiration_days", "document_ids"} :
                       envelopes'[e][f] = envelopes[e][f]
                /\ Of(recipients', e) = Of(recipients, e)
                /\ \A r \in Of(recipients, e) :
                       recipients'[r].signing_order
                           = recipients[r].signing_order]_vars

\* A sequential envelope has been sent and its first signer has signed: the
\* envelope is worked on after it left draft.
C31_Witness ==
    \E e \in EnvIds : \E r, q \in Of(recipients, e) :
        /\ envelopes[e].status = "sent"
        /\ envelopes[e].signing_order = "sequential"
        /\ recipients[r].status = "signed"
        /\ recipients[q].signing_order = 2
        /\ recipients[q].status = "viewed"

\* The order of the recipient statuses: signed and declined are both last.
StatusRank(s) ==
    CASE s = "pending" -> 0 [] s = "sent" -> 1 [] s = "viewed" -> 2
      [] OTHER -> 3

\* C32: on no step does a recipient's status move backwards in the order
\* pending < sent < viewed < signed, declined; and a recipient becomes sent
\* only from pending.
C32_StatusNeverMovesBack ==
    [][\A r \in RcpIds :
        (Exists(recipients[r]) /\ Exists(recipients'[r])) =>
            /\ StatusRank(recipients'[r].status)
                  >= StatusRank(recipients[r].status)
            /\ (recipients'[r].status = "sent"
                  /\ recipients[r].status # "sent") =>
                    recipients[r].status = "pending"]_vars

\* C33: when a request that views a recipient runs side by side with one
\* that signs (declines) the same recipient, then once the signing
\* (declining) request has returned the recipient is signed (declined), at
\* every later moment: the viewer's write does not undo it.
C33_ViewLosesNoUpdate ==
    \A p, q \in ProcIds :
        (/\ p # q
         /\ procs[q].op = "MarkRecipientViewed"
         /\ procs[q].rcp = procs[p].rcp
         /\ procs[p].pc = "done"
         /\ procs[p].result = "ok") =>
            /\ procs[p].op = "MarkRecipientSigned" =>
                  recipients[procs[p].rcp].status = "signed"
            /\ procs[p].op = "DeclineEnvelope" =>
                  recipients[procs[p].rcp].status = "declined"

\* C34: however a delete_document and a create_envelope on the same
\* document interleave, no document is soft-deleted while an envelope
\* references it, and once no request is under way the document's
\* in_use_by_envelopes is the number of envelopes that reference it.
C34_DeleteAndCreateAgree ==
    \A d \in DocIds :
        /\ documents[d].deleted_at # 0 => ReferencingEnvelopes(d) = {}
        /\ (\A p \in ProcIds : procs[p].pc \in {"idle", "done"}) =>
              documents[d].in_use_by_envelopes
                  = Cardinality(ReferencingEnvelopes(d))

\* C35: a create_envelope call that fails (a validation or permission error
\* of the envelope, of its documents or of an entry of its recipients list)
\* leaves the tables as they were: no envelope, link or recipient is
\* created and no in_use_by_envelopes changes.
C35_FailedCreateChangesNothing ==
    /\ [](\A u \in Users, ids \in {<<>>, <<"d1", "d1">>, <<"d1">>} :
             (CreateEnvelopeResult(documents, u, Subject1, <<>>,
                                   DEFAULT_EXPIRATION_DAYS, ids) = "ok")
                 <=> (ids = <<"d1">> /\ documents["d1"].user_id = u
                      /\ documents["d1"].status = "ready"
                      /\ documents["d1"].deleted_at = 0))
    /\ [][\A e \in EnvIds, u \in Users, m \in SigningOrder,
             recipient_list \in RecipientLists :
             (/\ CreateEnvelopeWithRecipients(e, u, Subject1, <<>>, <<"d1">>,
                     m, DEFAULT_EXPIRATION_DAYS, recipient_list, Code1)
              /\ ret' # {"ok"}) =>
                 UNCHANGED <<envelopes, recipients, documents>>]_vars

\* C36: in every reachable state every recipient row has a signing_order of
\* at least 1 (add_recipient and update_recipient_signing_order refuse a
\* lower one).
C36_SigningOrderAtLeastOne ==
    \A r \in RcpIds :
        Exists(recipients[r]) =>
            recipients[r].signing_order >= MIN_SIGNING_ORDER

\* A workflow operation (send, void, update, add recipient, update signing
\* orders, view, sign, decline) on envelope a, with any of the inputs.
WorkflowStepOn(a) ==
    \/ \E m \in SigningOrder : UpdateEnvelope(a, "u1", {}, {}, {m}, {})
    \/ \E o \in Orders :
          AddRecipient(a, "u1", Name1, Email1, "signer", o, Code1,
                       MaxRecipients)
    \/ \E r \in RcpIds, o \in Orders :
          UpdateRecipientSigningOrder(a, "u1",
              <<[recipient_id |-> r, signing_order |-> o]>>)
    \/ SendEnvelope(a, "u1")
    \/ VoidEnvelope(a, "u1", <<"x">>)
    \/ \E r \in RcpIds : MarkRecipientViewed(a, r)
    \/ \E r \in RcpIds : MarkRecipientSigned(a, r)
    \/ \E r \in RcpIds : DeclineEnvelope(a, r, <<"x">>)

\* C37: a workflow operation on envelope a leaves every other envelope b
\* and b's recipients as they were, and viewing, signing or declining
\* through envelope a with a recipient of envelope b raises
\* EnvelopeValidationError and is no step.
C37_EnvelopesAreIndependent ==
    /\ [](\A a, b \in TwoEnvIds : \A r \in Of(recipients, b) :
             a # b =>
                 /\ MarkRecipientViewedResult(recipients, a, r)
                       = "EnvelopeValidationError"
                 /\ MarkRecipientSignedResult(recipients, a, r)
                       = "EnvelopeValidationError"
                 /\ DeclineEnvelopeResult(recipients, a, r, <<"x">>)
                       = "EnvelopeValidationError")
    /\ [][\A a, b \in TwoEnvIds :
             (a # b /\ WorkflowStepOn(a)) =>
                 /\ envelopes'[b] = envelopes[b]
                 /\ Of(recipients', b) = Of(recipients, b)
                 /\ \A r \in Of(recipients, b) :
                        recipients'[r] = recipients[r]]_vars

C37_Witness ==
    /\ envelopes[1].status = "completed"
    /\ envelopes[2].status = "sent"
    /\ \E r \in Of(recipients, 1) : recipients[r].status = "signed"
    /\ \E r \in Of(recipients, 2) : recipients[r].status = "sent"

\* C38: a login that succeeds leaves the user's row with
\* failed_login_attempts 0, account_locked clear and no locked_until; and in
\* every reachable state a row whose account_locked is clear has fewer than
\* max_login_attempts failed attempts.
C38_SuccessResetsAndUnlockedIsBelowMax ==
    /\ [](\A u \in Users :
             ~user_rows[u].account_locked =>
                 user_rows[u].failed_login_attempts < max_login_attempts)
    /\ [][\A u \in Users :
             (LoginOf(u, "right") /\ ret' = {"ok"}) =>
                 /\ user_rows'[u].failed_login_attempts = 0
                 /\ ~user_rows'[u].account_locked
                 /\ user_rows'[u].locked_until = 0]_vars

C38_Witness ==
    /\ ret = {"ok"}
    /\ user_rows["u1"].failed_login_attempts = 0
    /\ ~user_rows["u1"].account_locked
    /\ now > account_lockout_minutes
    /\ user_rows["u2"].account_locked
    /\ user_rows["u2"].failed_login_attempts > max_login_attempts

\* C39: a reset_password that succeeds with a reset token leaves that token
\* rejected with InvalidTokenError and every refresh token issued to the
\* user before rejected by refresh_access_token; and a reset token or
\* refresh token that is rejected once is rejected ever after, so a reset
\* token changes a password at most once.
C39_ResetTokenOnceAndSessionsEnd ==
    /\ [][\A token \in TokenIds :
             (/\ ResetPassword(token, "NewSecurePassword123!")
              /\ ret' = {"ok"}) =>
                 /\ \A new_password \in NewPasswords :
                        ResetPasswordResult(reset_tokens', token, new_password)
                            = "InvalidTokenError"
                 /\ \A k \in TokenIds :
                        refresh_tokens[k].user_id
                            = reset_tokens[token].user_id =>
                        RefreshAccessTokenResult(refresh_tokens', k)
                            = "InvalidTokenError"]_vars
    /\ [][\A k \in TokenIds :
             /\ (/\ reset_tokens[k].user_id # "none"
                 /\ ~ResetTokenIsValid(reset_tokens, k)) =>
                    ~ResetTokenIsValid(reset_tokens', k)
             /\ (/\ refresh_tokens[k].user_id # "none"
                 /\ RefreshAccessTokenResult(refresh_tokens, k)
                       = "InvalidTokenError") =>
                    RefreshAccessTokenResult(refresh_tokens', k)
                       = "InvalidTokenError"]_vars

C39_Witness ==
    /\ ret = {"InvalidTokenError"}
    /\ user_rows["u1"].password_hash = HashPassword("NewSecurePassword123!")
    /\ \E k \in TokenIds :
          /\ reset_tokens[k] = [user_id |-> "u1", used |-> TRUE,
                                deleted |-> TRUE]
    /\ \E k, j \in TokenIds :
          /\ refresh_tokens[k] = [user_id |-> "u1", revoked |-> TRUE]
          /\ refresh_tokens[j] = [user_id |-> "u1", revoked |-> FALSE]

====
